---- MODULE Spec2Model ----
(***************************************************************************)
(* Secure transfer pipeline of ftp-ext: the SFTP transport manager         *)
(* (sftp_client.py), the upload/download handlers that chain compression,  *)
(* encryption and transport (server.py), and the transfer ledger           *)
(* (database.py).                                                          *)
(*                                                                         *)
(* Python strings are sequences of one-character strings; None is NoVal.   *)
(* Every transport operation is split into the steps at which the code can *)
(* raise: each step is one action of a request-handling thread.            *)
(***************************************************************************)
EXTENDS Integers, Sequences, FiniteSets, TLC

\* ------------------------------------------------------------------ bounds
\* number of requests (handler or direct transport calls) started in a run
MaxOps == 2
\* largest reading of the wall clock in a run, in ticks
MaxTicks == 2
\* number of tokens an AESCipher makes or receives in a run
MaxTokens == 1

\* ticks per second of the wall clock: strftime('%Y%m%d_%H%M%S') keeps seconds
TicksPerSecond == 2

\* ----------------------------------------------------------------- strings
\* None, as a value no string equals
NoVal == <<"<None>">>

S_true == <<"t", "r", "u", "e">>
S_True == <<"T", "r", "u", "e">>
S_false == <<"f", "a", "l", "s", "e">>

\* str.lower() on the characters the model uses
LowerChar(c) == IF c = "T" THEN "t" ELSE c
Lower(s) == [i \in DOMAIN s |-> LowerChar(s[i])]

\* os.getenv(name, default)
Getenv(e, name, default) == IF e[name] = NoVal THEN default ELSE e[name]

\* Python truthiness of an optional string: None and '' are false
Truthy(s) == s # NoVal /\ s # <<>>

\* s.rfind('/') + 1: index (0-based) just after the last '/', 0 when none
RECURSIVE AfterLastSlash(_, _)
AfterLastSlash(s, i) ==
    IF i = 0 THEN 0
    ELSE IF s[i] = "/" THEN i
    ELSE AfterLastSlash(s, i - 1)

\* posixpath.basename(p): p[p.rfind('/') + 1:]
Basename(p) == SubSeq(p, AfterLastSlash(p, Len(p)) + 1, Len(p))

StartsWith(s, c) == Len(s) > 0 /\ s[1] = c

\* ------------------------------------------------------------ environment
\* values the deployment may give the two boolean flags
FlagVals == {NoVal, S_true, S_True, S_false}

Envs ==
    [SFTP_HOST : {NoVal, <<>>, <<"h">>},
     SFTP_USERNAME : {NoVal, <<"u">>},
     SFTP_PASSWORD : {NoVal, <<"p">>},
     SFTP_DEV_MODE : FlagVals,
     SFTP_ACCEPT_UNKNOWN_HOSTS : FlagVals]

\* os.getenv('SFTP_REMOTE_PATH', '/uploads') with the variable unset
DefaultRemotePath == <<"/", "u", "p", "l", "o", "a", "d", "s">>

\* -------------------------------------------------------------- normpath
\* s.split('/') : the components between the separators
RECURSIVE SplitSlash(_, _, _)
SplitSlash(s, cur, acc) ==
    IF s = <<>> THEN Append(acc, cur)
    ELSE IF Head(s) = "/" THEN SplitSlash(Tail(s), <<>>, Append(acc, cur))
    ELSE SplitSlash(Tail(s), Append(cur, Head(s)), acc)

\* '/'.join(comps)
RECURSIVE JoinSlash(_)
JoinSlash(comps) ==
    IF comps = <<>> THEN <<>>
    ELSE IF Len(comps) = 1 THEN comps[1]
    ELSE comps[1] \o <<"/">> \o JoinSlash(Tail(comps))

DotDot == <<".", ".">>

\* number of leading slashes posixpath.normpath keeps: 0, 1, or 2 for exactly two
InitialSlashes(path) ==
    IF ~StartsWith(path, "/") THEN 0
    ELSE IF Len(path) >= 2 /\ path[2] = "/" /\ ~(Len(path) >= 3 /\ path[3] = "/") THEN 2
    ELSE 1

\* the loop of posixpath.normpath over the components
RECURSIVE NormComps(_, _, _)
NormComps(comps, new, slashes) ==
    IF comps = <<>> THEN new
    ELSE LET c == Head(comps) IN
         IF c = <<>> \/ c = <<".">> THEN NormComps(Tail(comps), new, slashes)
         ELSE IF c # DotDot
                 \/ (slashes = 0 /\ new = <<>>)
                 \/ (new # <<>> /\ new[Len(new)] = DotDot)
              THEN NormComps(Tail(comps), Append(new, c), slashes)
         ELSE IF new # <<>>
              THEN NormComps(Tail(comps), SubSeq(new, 1, Len(new) - 1), slashes)
         ELSE NormComps(Tail(comps), new, slashes)

\* posixpath.normpath(path)
Normpath(path) ==
    IF path = <<>> THEN <<".">>
    ELSE LET slashes == InitialSlashes(path)
             body == JoinSlash(NormComps(SplitSlash(path, <<>>, <<>>), <<>>, slashes))
             out == [i \in 1..slashes |-> "/"] \o body
         IN IF out = <<>> THEN <<".">> ELSE out

\* '..' in s  (substring test)
ContainsDotDot(s) == \E i \in 1..(Len(s) - 1) : s[i] = "." /\ s[i + 1] = "."

\* ----------------------------------------------------------------- bytes
\* A byte string is its innermost plain bytes b and the encodings applied to
\* them, innermost first.  gzip and Fernet are modelled by the algebra of
\* their encode/decode pairs; a cut layer is a truncated (partial) object.
GzLayer == [l |-> "gz", key |-> 0, iv |-> 0]
CutLayer == [l |-> "cut", key |-> 0, iv |-> 0]
FernetLayer(k, iv) == [l |-> "fernet", key |-> k, iv |-> iv]

Plain(b) == [b |-> b, layers |-> <<>>]
NoData == Plain(<<>>)

Outer(c) == c.layers[Len(c.layers)]
Peel(c) == [c EXCEPT !.layers = SubSeq(@, 1, Len(@) - 1)]

\* gzip.GzipFile(mode='wb').write(data)
GzipCompress(c) == [c EXCEPT !.layers = Append(@, GzLayer)]
\* gzip.decompress(data) succeeds only on a gzip stream
CanDecompress(c) == c.layers # <<>> /\ Outer(c).l = "gz"
GzipDecompress(c) == Peel(c)

\* Fernet(key).encrypt(data) with the fresh IV iv
FernetEncrypt(k, iv, c) == [c EXCEPT !.layers = Append(@, FernetLayer(k, iv))]
\* Fernet(key).decrypt(token) verifies the HMAC under key before decrypting
CanDecrypt(k, c) == c.layers # <<>> /\ Outer(c).l = "fernet" /\ Outer(c).key = k
FernetDecrypt(k, c) == Peel(c)

\* a transfer interrupted part-way leaves a truncated object
Truncated(c) == [c EXCEPT !.layers = Append(@, CutLayer)]

\* ------------------------------------------------------------------ state
VARIABLES
    env,          \* os.environ of the process
    hostKnown,    \* the server's host key is in the loaded known_hosts
    mgr,          \* sftp_manager, the process-wide SFTPManager
    pc,           \* per thread: the step it is at
    loc,          \* per thread: the locals of the call it is in
    sessions,     \* every paramiko.SSHClient created, in creation order
    tmpFiles,     \* local staging files that exist on disk
    remoteDir,    \* the remote base directory exists
    remoteFiles,  \* remote path -> [data, mode] of the objects on the server
    now,          \* the last reading of the wall clock, in ticks
    db,           \* the ledger (Database)
    logged,       \* history: transfer id -> the upload request that logged it
    opsLeft,      \* requests the run may still start
    crypto,       \* encryption.py: an AESCipher, the token at hand, the last result
    mem           \* the in-memory Database at the grain of its statements

vars == <<mem, crypto, env, hostKnown, mgr, pc, loc, sessions, tmpFiles, remoteDir,
          remoteFiles, now, db, logged, opsLeft>>

\* error texts of the result dictionaries
DevModeMsg == "SFTP not configured - running in development mode"
InvalidNameMsg == "Invalid filename"
InvalidDirMsg == "Invalid directory path"
NotFoundMsg == "File not found on server"

\* str(e) of the exceptions the steps raise, by the step that raised
ConnErrors == {"SFTP connection parameters missing", "connect failed",
               "unknown host key", "authentication failed", "open_sftp failed"}

Fail(msg) == [success |-> FALSE, error |-> msg, data |-> NoData, remote_filename |-> NoVal]
Ok(data, name) == [success |-> TRUE, error |-> "", data |-> data, remote_filename |-> name]
NoResult == Fail("")

UploadedMsg == "File uploaded successfully"
NoResp == [status |-> 0, error |-> "", message |-> "", data |-> NoData, size |-> 0,
           compressed_size |-> 0, compression_ratio |-> 0,
           transfer_id |-> 0, remote_filename |-> NoVal, stages |-> <<>>]

IdleLoc ==
    [hk |-> "none", op |-> "none", arg |-> NoVal, name |-> NoVal, data |-> NoData,
     conn |-> 0, ssh |-> 0, sftp |-> 0, tmp |-> 0, buf |-> NoData, made |-> {}, at |-> 0,
     io |-> 0, req |-> 0,
     exc |-> "", res |-> NoResult,
     user |-> 0, filename |-> NoVal, raw |-> <<>>, remote_filename |-> NoVal,
     tid |-> 0, resp |-> NoResp]

\* ---------------------------------------------------- SFTPManager.__init__
\* self.dev_mode
DevModeFlag(e) == Lower(Getenv(e, "SFTP_DEV_MODE", S_false)) = S_true

\* mutant: the constructor forgets to test the password
ConfigMissing_NoPassword(host, username, password) ==
    ~Truthy(host) \/ ~Truthy(username)

\* the configuration check of the constructor: TRUE when it raises ValueError
ConfigMissing(host, username, password) ==
    ~Truthy(host) \/ ~Truthy(username) \/ ~Truthy(password)

SFTPManagerInit(e) ==
    LET host == e["SFTP_HOST"]
        username == e["SFTP_USERNAME"]
        password == e["SFTP_PASSWORD"]
        dev_mode == DevModeFlag(e)
        raised == ConfigMissing(host, username, password) /\ ~dev_mode
    IN [status |-> IF raised THEN "raised" ELSE "ok",
        host |-> host, username |-> username, password |-> password,
        remote_path |-> DefaultRemotePath, dev_mode |-> dev_mode]

NotConstructed ==
    [status |-> "none", host |-> NoVal, username |-> NoVal, password |-> NoVal,
     remote_path |-> DefaultRemotePath, dev_mode |-> FALSE]

\* sftp_manager = SFTPManager() at import of server.py
Construct ==
    /\ mgr.status = "none"
    /\ mgr' = SFTPManagerInit(env)
    /\ UNCHANGED <<mem, crypto, env, hostKnown, pc, loc, sessions, tmpFiles, remoteDir,
                   remoteFiles, now, db, logged, opsLeft>>

\* ------------------------------------------------- public transport entry
\* mutant: the leading-dot test is dropped
NameRejected_EmptyOnly(sanitized) == sanitized = <<>>

\* mutant: the name is used as given
Sanitize_AsGiven(remote_filename) == remote_filename

\* the sanitised name, and the test that turns it away
Sanitize(remote_filename) == Basename(remote_filename)
NameRejected(sanitized) == sanitized = <<>> \/ StartsWith(sanitized, ".")

\* list_files: the directory argument is turned away
DirRejected(remote_directory) ==
    /\ Truthy(remote_directory)
    /\ LET normalized_dir == Normpath(remote_directory)
       IN ContainsDotDot(normalized_dir) \/ StartsWith(normalized_dir, "/")

\* mutant: test_connection skips the development-mode check
EarlyResult_TestSkipsDevMode(m, op, arg) ==
    IF m.dev_mode /\ op # "test" THEN Fail(DevModeMsg)
    ELSE IF op \in {"put", "get", "delete"} /\ NameRejected(Sanitize(arg))
         THEN Fail(InvalidNameMsg)
    ELSE IF op = "list" /\ DirRejected(arg) THEN Fail(InvalidDirMsg)
    ELSE NoResult

\* the result an operation returns before any connection, or NoResult when it
\* goes on to open a connection
EarlyResult(m, op, arg) ==
    IF m.dev_mode THEN Fail(DevModeMsg)
    ELSE IF op \in {"put", "get", "delete"} /\ NameRejected(Sanitize(arg))
         THEN Fail(InvalidNameMsg)
    ELSE IF op = "list" /\ DirRejected(arg) THEN Fail(InvalidDirMsg)
    ELSE NoResult

\* the name the *_via_sftp method receives
PassedName(op, arg) ==
    IF op \in {"put", "get", "delete"} THEN Sanitize(arg) ELSE arg

\* locals of thread p on entering upload_file/download_file/list_files/
\* delete_file/test_connection with the given arguments
Enter(l, hk, op, arg, data) ==
    LET early == EarlyResult(mgr, op, arg) IN
    [l EXCEPT !.hk = hk, !.op = op, !.arg = arg, !.data = data,
              !.name = IF early = NoResult THEN PassedName(op, arg) ELSE NoVal,
              !.conn = 0, !.ssh = 0, !.sftp = 0, !.tmp = 0, !.buf = NoData,
              !.made = {}, !.io = 0, !.req = opsLeft, !.exc = "", !.res = early]

EnterPc(op, arg) == IF EarlyResult(mgr, op, arg) = NoResult THEN "conn" ELSE "ret"

Goto(p, l) == pc' = [pc EXCEPT ![p] = l]

\* thread p exists and is at step l
At(p, l) == p \in DOMAIN pc /\ pc[p] = l

\* thread p may take a request: the process started, and the run is in bounds
CanStart(p) ==
    /\ mgr.status = "ok"
    /\ At(p, "idle")
    /\ opsLeft > 0

\* --------------------------------------------------- _get_sftp_connection
\* mutant: unknown hosts are accepted unless the flag says otherwise
HostKeyPolicy_AcceptByDefault(e) ==
    IF Lower(Getenv(e, "SFTP_ACCEPT_UNKNOWN_HOSTS", S_true)) = S_true
    THEN "AutoAddPolicy" ELSE "RejectPolicy"

\* the missing-host-key policy installed on a new SSHClient
HostKeyPolicy(e) ==
    IF Lower(Getenv(e, "SFTP_ACCEPT_UNKNOWN_HOSTS", S_false)) = S_true
    THEN "AutoAddPolicy" ELSE "RejectPolicy"

\* paramiko: the server key passes when known, or when the policy adds it
HostKeyAccepted(known, policy) == known \/ policy = "AutoAddPolicy"

NewSession(p, e) ==
    [owner |-> p, ssh |-> "new", sftp |-> "none", policy |-> HostKeyPolicy(e),
     misuse |-> FALSE]


\* an exception leaves the try block of the *_via_sftp method
Raise(p, l, msg) ==
    /\ loc' = [loc EXCEPT ![p] = [l EXCEPT !.exc = msg]]
    /\ Goto(p, "finally")

\* one remote call on the SFTP channel s: a call on a channel that is not open
\* is recorded as misuse of the session
RemoteCall(ss, s) == [ss EXCEPT ![s].misuse = @ \/ ss[s].sftp # "open"]

\* mutant: a pooled connection, the newest session is taken when one exists
ConnNew_Pooled(p) ==
    /\ At(p, "conn")
    /\ LET fresh == sessions = <<>>
           s == IF fresh THEN 1 ELSE Len(sessions)
           l == [loc[p] EXCEPT !.conn = s, !.made = @ \cup {s}]
       IN /\ sessions' = IF fresh THEN Append(sessions, NewSession(p, env)) ELSE sessions
          /\ loc' = [loc EXCEPT ![p] = l]
          /\ Goto(p, "tcp")
    /\ UNCHANGED <<mem, crypto, env, hostKnown, mgr, tmpFiles, remoteDir, remoteFiles, now,
                   db, logged, opsLeft>>

\* ssh = paramiko.SSHClient(); host keys; policy; the parameter check
ConnNew(p) ==
    /\ At(p, "conn")
    /\ LET s == Len(sessions) + 1
           l == [loc[p] EXCEPT !.conn = s, !.made = @ \cup {s}]
       IN /\ sessions' = Append(sessions, NewSession(p, env))
          /\ IF ConfigMissing(mgr.host, mgr.username, mgr.password)
             THEN Raise(p, l, "SFTP connection parameters missing")
             ELSE loc' = [loc EXCEPT ![p] = l] /\ Goto(p, "tcp")
    /\ UNCHANGED <<mem, crypto, env, hostKnown, mgr, tmpFiles, remoteDir, remoteFiles, now,
                   db, logged, opsLeft>>

\* ssh.connect, first half: TCP connect within the timeout, key exchange,
\* host key verification
ConnTransport(p) ==
    /\ At(p, "tcp")
    /\ LET s == loc[p].conn IN
       \/ /\ sessions' = [sessions EXCEPT ![s].ssh = "failed"]
          /\ Raise(p, loc[p], "connect failed")
       \/ /\ ~HostKeyAccepted(hostKnown, sessions[s].policy)
          /\ sessions' = [sessions EXCEPT ![s].ssh = "failed"]
          /\ Raise(p, loc[p], "unknown host key")
       \/ /\ HostKeyAccepted(hostKnown, sessions[s].policy)
          /\ sessions' = [sessions EXCEPT ![s].ssh = "authenticating"]
          /\ Goto(p, "auth")
          /\ UNCHANGED loc
    /\ UNCHANGED <<mem, crypto, env, hostKnown, mgr, tmpFiles, remoteDir, remoteFiles, now,
                   db, logged, opsLeft>>

\* ssh.connect, second half: password authentication
ConnAuth(p) ==
    /\ At(p, "auth")
    /\ LET s == loc[p].conn IN
       \/ /\ sessions' = [sessions EXCEPT ![s].ssh = "failed"]
          /\ Raise(p, loc[p], "authentication failed")
       \/ /\ sessions' = [sessions EXCEPT ![s].ssh = "open"]
          /\ Goto(p, "open_sftp")
          /\ UNCHANGED loc
    /\ UNCHANGED <<mem, crypto, env, hostKnown, mgr, tmpFiles, remoteDir, remoteFiles, now,
                   db, logged, opsLeft>>

\* first step of each *_via_sftp method once it holds ssh, sftp
FirstStep(op) ==
    CASE op = "put" -> "put_listdir"
      [] op = "get" -> "get_stat"
      [] op = "list" -> "list_attr"
      [] op = "delete" -> "del_stat"
      [] op = "test" -> "test_listdir"

\* sftp = ssh.open_sftp(); return ssh, sftp.  When open_sftp raises, the
\* exception is re-raised and the caller's ssh and sftp stay None.
ConnOpenSftp(p) ==
    /\ At(p, "open_sftp")
    /\ LET s == loc[p].conn IN
       \/ /\ Raise(p, loc[p], "open_sftp failed")
          /\ UNCHANGED sessions
       \/ /\ sessions' = [sessions EXCEPT ![s].sftp = "open"]
          /\ loc' = [loc EXCEPT ![p].ssh = s, ![p].sftp = s]
          /\ Goto(p, FirstStep(loc[p].op))
    /\ UNCHANGED <<mem, crypto, env, hostKnown, mgr, tmpFiles, remoteDir, remoteFiles, now,
                   db, logged, opsLeft>>

\* ------------------------------------------------------ remote file store
\* remote_file_path = f"{self.remote_path}/{remote_filename}"
RemoteFilePath(m, remote_filename) == m.remote_path \o <<"/">> \o remote_filename

Exists(path) == path \in DOMAIN remoteFiles
Store(files, path, data, mode) == [q \in DOMAIN files \cup {path} |->
                                    IF q = path THEN [data |-> data, mode |-> mode]
                                    ELSE files[q]]
Remove(files, path) == [q \in DOMAIN files \ {path} |-> files[q]]

\* mode of a file sftp.put creates, and the mode chmod sets (0o600)
DefaultMode == "0o644"
OwnerOnlyMode == "0o600"

\* frame of the steps that touch only the session and the thread
StepFrame == UNCHANGED <<mem, crypto, env, hostKnown, mgr, now, db, logged, opsLeft>>

\* --------------------------------------------------------- _upload_via_sftp
\* the thread's locals after one more remote call
Called(l) == [l EXCEPT !.io = @ + 1]

\* the thread goes on to step next with locals l
Step(p, l, next) == loc' = [loc EXCEPT ![p] = l] /\ Goto(p, next)

\* sftp.listdir(self.remote_path), FileNotFoundError caught
PutListdir(p) ==
    /\ At(p, "put_listdir")
    /\ sessions' = RemoteCall(sessions, loc[p].sftp)
    /\ LET l == Called(loc[p]) IN
       \/ Raise(p, l, "listdir failed")
       \/ remoteDir /\ Step(p, l, "put_temp")
       \/ ~remoteDir /\ Step(p, l, "put_mkdir")
    /\ UNCHANGED <<tmpFiles, remoteDir, remoteFiles>>
    /\ StepFrame

\* sftp.mkdir(self.remote_path)
PutMkdir(p) ==
    /\ At(p, "put_mkdir")
    /\ sessions' = RemoteCall(sessions, loc[p].sftp)
    /\ LET l == Called(loc[p]) IN
       \/ Raise(p, l, "mkdir failed") /\ UNCHANGED remoteDir
       \/ ~remoteDir /\ remoteDir' = TRUE /\ Step(p, l, "put_temp")
    /\ UNCHANGED <<tmpFiles, remoteFiles>>
    /\ StepFrame

\* with tempfile.NamedTemporaryFile(delete=False) as temp_file:
\*     temp_file.write(file_data); temp_file_path = temp_file.name
\* The file exists from its creation; the path is bound after the write.
PutTemp(p) ==
    /\ At(p, "put_temp")
    /\ LET f == loc[p].ssh IN
       \/ Raise(p, loc[p], "tempfile failed") /\ UNCHANGED tmpFiles
       \/ /\ tmpFiles' = tmpFiles \cup {f}
          /\ Raise(p, loc[p], "tempfile write failed")
       \/ /\ tmpFiles' = tmpFiles \cup {f}
          /\ Step(p, [loc[p] EXCEPT !.tmp = f], "put_put")
    /\ UNCHANGED <<sessions, remoteDir, remoteFiles>>
    /\ StepFrame

\* the mode of the object at path after a write: kept when it exists
ModeAfterWrite(path) ==
    IF Exists(path) THEN remoteFiles[path].mode ELSE DefaultMode

\* sftp.put(temp_file_path, remote_file_path): a failed transfer may leave
\* nothing or a truncated object
PutPut(p) ==
    /\ At(p, "put_put")
    /\ sessions' = RemoteCall(sessions, loc[p].sftp)
    /\ LET path == RemoteFilePath(mgr, loc[p].name)
           l == Called(loc[p])
       IN
       \/ Raise(p, l, "put failed") /\ UNCHANGED remoteFiles
       \/ /\ remoteDir
          /\ remoteFiles' = Store(remoteFiles, path, Truncated(loc[p].data),
                                  ModeAfterWrite(path))
          /\ Raise(p, l, "put failed")
       \/ /\ remoteDir
          /\ remoteFiles' = Store(remoteFiles, path, loc[p].data, ModeAfterWrite(path))
          /\ Step(p, l, "put_chmod")
    /\ UNCHANGED <<tmpFiles, remoteDir>>
    /\ StepFrame

\* sftp.chmod(remote_file_path, 0o600); return {'success': True, ...}
PutChmod(p) ==
    /\ At(p, "put_chmod")
    /\ sessions' = RemoteCall(sessions, loc[p].sftp)
    /\ LET path == RemoteFilePath(mgr, loc[p].name)
           l == Called(loc[p])
       IN
       \/ Raise(p, l, "chmod failed") /\ UNCHANGED remoteFiles
       \/ /\ Exists(path)
          /\ remoteFiles' = [remoteFiles EXCEPT ![path].mode = OwnerOnlyMode]
          /\ Step(p, [l EXCEPT !.res = Ok(NoData, l.name)], "finally")
    /\ UNCHANGED <<tmpFiles, remoteDir>>
    /\ StepFrame

\* ------------------------------------------------------- _download_via_sftp
\* mutant: a missing object is reported as a failed connection
GetStat_NotFoundAsConnectError(p) ==
    /\ At(p, "get_stat")
    /\ sessions' = RemoteCall(sessions, loc[p].sftp)
    /\ LET path == RemoteFilePath(mgr, loc[p].name)
           l == Called(loc[p])
       IN
       \/ Raise(p, l, "stat failed")
       \/ ~Exists(path) /\ Step(p, [l EXCEPT !.res = Fail("connect failed")], "finally")
       \/ Exists(path) /\ Step(p, l, "get_temp")
    /\ UNCHANGED <<tmpFiles, remoteDir, remoteFiles>>
    /\ StepFrame

\* sftp.stat(remote_file_path), FileNotFoundError -> 'File not found on server'
GetStat(p) ==
    /\ At(p, "get_stat")
    /\ sessions' = RemoteCall(sessions, loc[p].sftp)
    /\ LET path == RemoteFilePath(mgr, loc[p].name)
           l == Called(loc[p])
       IN
       \/ Raise(p, l, "stat failed")
       \/ ~Exists(path) /\ Step(p, [l EXCEPT !.res = Fail(NotFoundMsg)], "finally")
       \/ Exists(path) /\ Step(p, l, "get_temp")
    /\ UNCHANGED <<tmpFiles, remoteDir, remoteFiles>>
    /\ StepFrame

\* with tempfile.NamedTemporaryFile(delete=False) as temp_file:
\*     temp_file_path = temp_file.name
GetTemp(p) ==
    /\ At(p, "get_temp")
    /\ LET f == loc[p].ssh IN
       \/ Raise(p, loc[p], "tempfile failed") /\ UNCHANGED tmpFiles
       \/ /\ tmpFiles' = tmpFiles \cup {f}
          /\ Step(p, [loc[p] EXCEPT !.tmp = f], "get_get")
    /\ UNCHANGED <<sessions, remoteDir, remoteFiles>>
    /\ StepFrame

\* sftp.get(remote_file_path, temp_file_path)
GetGet(p) ==
    /\ At(p, "get_get")
    /\ sessions' = RemoteCall(sessions, loc[p].sftp)
    /\ LET path == RemoteFilePath(mgr, loc[p].name)
           l == Called(loc[p])
       IN
       \/ Raise(p, l, "get failed")
       \/ Exists(path) /\ Step(p, [l EXCEPT !.buf = remoteFiles[path].data], "get_read")
    /\ UNCHANGED <<tmpFiles, remoteDir, remoteFiles>>
    /\ StepFrame

\* with open(temp_file_path, 'rb') as f: file_data = f.read(); return success
GetRead(p) ==
    /\ At(p, "get_read")
    /\ \/ Raise(p, loc[p], "read failed")
       \/ Step(p, [loc[p] EXCEPT !.res = Ok(loc[p].buf, NoVal)], "finally")
    /\ UNCHANGED <<sessions, tmpFiles, remoteDir, remoteFiles>>
    /\ StepFrame

\* ----------------------------------------------------- _list_files_via_sftp
\* directory = remote_directory or self.remote_path
ListDirectory(m, remote_directory) ==
    IF Truthy(remote_directory) THEN remote_directory ELSE m.remote_path

\* sftp.listdir_attr(directory); return {'success': True, 'files': files}
ListAttr(p) ==
    /\ At(p, "list_attr")
    /\ sessions' = RemoteCall(sessions, loc[p].sftp)
    /\ LET directory == ListDirectory(mgr, loc[p].name)
           l == Called(loc[p])
       IN
       \/ Raise(p, l, "listdir_attr failed")
       \/ /\ directory = mgr.remote_path => remoteDir
          /\ Step(p, [l EXCEPT !.res = Ok(NoData, NoVal)], "finally")
    /\ UNCHANGED <<tmpFiles, remoteDir, remoteFiles>>
    /\ StepFrame

\* ---------------------------------------------------- _delete_file_via_sftp
\* sftp.stat(remote_file_path), FileNotFoundError -> 'File not found on server'
DelStat(p) ==
    /\ At(p, "del_stat")
    /\ sessions' = RemoteCall(sessions, loc[p].sftp)
    /\ LET path == RemoteFilePath(mgr, loc[p].name)
           l == Called(loc[p])
       IN
       \/ Raise(p, l, "stat failed")
       \/ ~Exists(path) /\ Step(p, [l EXCEPT !.res = Fail(NotFoundMsg)], "finally")
       \/ Exists(path) /\ Step(p, l, "del_remove")
    /\ UNCHANGED <<tmpFiles, remoteDir, remoteFiles>>
    /\ StepFrame

\* sftp.remove(remote_file_path); return {'success': True}
DelRemove(p) ==
    /\ At(p, "del_remove")
    /\ sessions' = RemoteCall(sessions, loc[p].sftp)
    /\ LET path == RemoteFilePath(mgr, loc[p].name)
           l == Called(loc[p])
       IN
       \/ Raise(p, l, "remove failed") /\ UNCHANGED remoteFiles
       \/ /\ Exists(path)
          /\ remoteFiles' = Remove(remoteFiles, path)
          /\ Step(p, [l EXCEPT !.res = Ok(NoData, NoVal)], "finally")
    /\ UNCHANGED <<tmpFiles, remoteDir>>
    /\ StepFrame

\* ------------------------------------------------ _test_connection_via_sftp
\* sftp.listdir(self.remote_path); return {'success': True, ...}
TestListdir(p) ==
    /\ At(p, "test_listdir")
    /\ sessions' = RemoteCall(sessions, loc[p].sftp)
    /\ LET l == Called(loc[p]) IN
       \/ Raise(p, l, "listdir failed")
       \/ remoteDir /\ Step(p, [l EXCEPT !.res = Ok(NoData, NoVal)], "finally")
    /\ UNCHANGED <<tmpFiles, remoteDir, remoteFiles>>
    /\ StepFrame

\* ------------------------------------------------------ the finally blocks
\* if temp_file_path and os.path.exists(temp_file_path): os.unlink(...)
UnlinkTemp(files, temp_file_path) ==
    IF temp_file_path # 0 /\ temp_file_path \in files
    THEN files \ {temp_file_path} ELSE files

\* if sftp: sftp.close()
CloseSftp(ss, sftp) == IF sftp # 0 THEN [ss EXCEPT ![sftp].sftp = "closed"] ELSE ss

\* if ssh: ssh.close()
CloseSsh(ss, ssh) == IF ssh # 0 THEN [ss EXCEPT ![ssh].ssh = "closed"] ELSE ss

\* mutant: the public method logs the exception and reports success
Returned_LoggedOnly(l) == IF l.exc # "" THEN Ok(NoData, NoVal) ELSE l.res

\* the result the public method returns: the value returned inside the try,
\* or, for an exception, {'success': False, 'error': str(e)}
Returned(l) == IF l.exc # "" THEN Fail(l.exc) ELSE l.res

\* finally of the *_via_sftp method, then the except clause of its caller
Finally(p) ==
    /\ At(p, "finally")
    /\ tmpFiles' = UnlinkTemp(tmpFiles, loc[p].tmp)
    /\ sessions' = CloseSsh(CloseSftp(sessions, loc[p].sftp), loc[p].ssh)
    /\ loc' = [loc EXCEPT ![p].res = Returned(loc[p])]
    /\ Goto(p, "ret")
    /\ UNCHANGED <<remoteDir, remoteFiles>>
    /\ StepFrame


\* ---------------------------------------------------------------- ledger
\* Database.log_transfer in memory mode: _get_next_id, then the insert
MemLogTransfer(d, rec) ==
    LET id == d.next_id + 1 IN
    [d EXCEPT !.next_id = id,
              !.transfers = [t \in DOMAIN d.transfers \cup {id} |->
                              IF t = id THEN rec ELSE d.transfers[t]]]

\* Database.log_transfer on PostgreSQL: INSERT ... RETURNING id (SERIAL)
PgLogTransfer(d, rec) ==
    LET id == d.serial + 1 IN
    [d EXCEPT !.serial = id,
              !.transfers = [t \in DOMAIN d.transfers \cup {id} |->
                              IF t = id THEN rec ELSE d.transfers[t]]]

LogTransfer(d, rec) == IF d.memory_mode THEN MemLogTransfer(d, rec) ELSE PgLogTransfer(d, rec)

\* the id log_transfer returned, read off the ledger after the insert
LastTransferId(d) == IF d.memory_mode THEN d.next_id ELSE d.serial

\* Database.log_activity: memory mode draws an id from the shared counter
LogActivity(d, user_id, activity_type) ==
    LET a == [user_id |-> user_id, activity_type |-> activity_type] IN
    IF d.memory_mode
    THEN [d EXCEPT !.next_id = @ + 1, !.activities = Append(@, a)]
    ELSE [d EXCEPT !.activities = Append(@, a)]

\* mutant: get_transfer does not look at the owner
HasTransfer_AnyOwner(d, transfer_id, user_id) == transfer_id \in DOMAIN d.transfers

\* Database.get_transfer(transfer_id, user_id): the record, when it exists
\* and, for a user_id that is given (0 is None), belongs to user_id
HasTransfer(d, transfer_id, user_id) ==
    /\ transfer_id \in DOMAIN d.transfers
    /\ user_id = 0 \/ d.transfers[transfer_id].user_id = user_id

\* ------------------------------------------------------- server.upload_file
\* authenticated callers: user_id -> username of the token
Users == {1, 2}
Username(u) == IF u = 1 THEN <<"a">> ELSE <<"b">>

\* the key of aes_cipher, fixed for the life of the process
EngineKey == 1

Digits == <<"0", "1", "2", "3", "4", "5", "6", "7", "8", "9">>

\* datetime.utcnow().strftime('%Y%m%d_%H%M%S'): date, '_', time to the second
Strftime(t) == <<"D", "_", Digits[(t \div TicksPerSecond) + 1]>>

\* f"{username}_{timestamp}_{file.filename}.enc"
RemoteFilename(username, t, filename) ==
    username \o <<"_">> \o Strftime(t) \o <<"_">> \o filename \o <<".", "e", "n", "c">>

\* len(data)
ByteLen(c) == Len(c.b) + Len(c.layers)

\* len(compressed_data) of lines 238-243 for file_data too short to hold a
\* repeat (up to three bytes): gzip's 10-byte header, one deflate block with
\* fixed Huffman codes (3 bits of block header, 8 bits for a byte below 144
\* and 9 for another, 7 bits of end-of-block), and the 8-byte trailer
GzipHeaderLen == 10
GzipTrailerLen == 8
LiteralBits(b) == IF b < 144 THEN 8 ELSE 9
RECURSIVE SumLiteralBits(_)
SumLiteralBits(raw) ==
    IF raw = <<>> THEN 0 ELSE LiteralBits(Head(raw)) + SumLiteralBits(Tail(raw))
DeflateLen(raw) == (3 + SumLiteralBits(raw) + 7 + 7) \div 8
CompressedSize(raw) == GzipHeaderLen + DeflateLen(raw) + GzipTrailerLen

\* round(n / d) for d > 0, a tie going to the even neighbour
RoundHalfEven(n, d) ==
    LET q == n \div d
        r == n - q * d
    IN IF 2 * r < d THEN q
       ELSE IF 2 * r > d THEN q + 1
       ELSE IF q % 2 = 0 THEN q ELSE q + 1

\* mutant: the ratio is computed without the test of original_size
CompressionRatio_Unguarded(original_size, compressed_size) ==
    IF original_size = 0 THEN [raised |-> TRUE, x100 |-> 0]
    ELSE [raised |-> FALSE,
          x100 |-> RoundHalfEven(10000 * (original_size - compressed_size), original_size)]

\* line 265: round((1 - compressed_size / original_size) * 100, 2) if
\* original_size > 0 else 0, in hundredths; raised when the division raises
CompressionRatio(original_size, compressed_size) ==
    IF original_size > 0
    THEN [raised |-> FALSE,
          x100 |-> RoundHalfEven(10000 * (original_size - compressed_size), original_size)]
    ELSE [raised |-> FALSE, x100 |-> 0]

\* the transfer_data dictionary of a successful upload
TransferData(l) ==
    [user_id |-> l.user, filename |-> l.filename, original_size |-> Len(l.raw),
     compressed_size |-> CompressedSize(l.raw),
     encrypted_size |-> ByteLen(l.data), remote_filename |-> l.remote_filename,
     type |-> "upload",
     compression_ratio |-> CompressionRatio(Len(l.raw), CompressedSize(l.raw)).x100]

\* compression_ratio NUMERIC(5,2): a value in hundredths fits when its
\* absolute value is below 1000.00
NumericDigits == 5
FitsNumeric(x100) == -(10 ^ NumericDigits) < x100 /\ x100 < 10 ^ NumericDigits

\* the INSERT INTO transfers of log_transfer is accepted by the table
InsertAccepted(d, rec) == d.memory_mode \/ FitsNumeric(rec.compression_ratio)

\* the IV os.urandom gives Fernet.encrypt: a value no earlier call was given
FreshIV == opsLeft

\* history of a logged upload: the request (its number, uploader, instant,
\* filename and bytes) and the name under which the transport stored them
LoggedUpload(l) ==
    [req |-> l.req, user |-> l.user, at |-> l.at, filename |-> l.filename,
     raw |-> l.raw, stored |-> l.res.remote_filename]

\* lines 234-252: read, compress, encrypt, name, then sftp_manager.upload_file.
\* datetime.utcnow() reads t, no earlier than the last reading of the clock.
UploadBegin(p, u, filename, raw, t) ==
    /\ CanStart(p)
    /\ filename # <<>>
    /\ t >= now
    /\ now' = t
    /\ LET encrypted_data == FernetEncrypt(EngineKey, FreshIV, GzipCompress(Plain(raw)))
           remote_filename == RemoteFilename(Username(u), t, filename)
           l == [IdleLoc EXCEPT !.user = u, !.filename = filename, !.raw = raw,
                                !.at = t, !.remote_filename = remote_filename]
       IN /\ loc' = [loc EXCEPT ![p] = Enter(l, "upload", "put", remote_filename,
                                              encrypted_data)]
          /\ Goto(p, EnterPc("put", remote_filename))
    /\ opsLeft' = opsLeft - 1
    /\ UNCHANGED <<mem, crypto, env, hostKnown, mgr, sessions, tmpFiles, remoteDir,
                   remoteFiles, db, logged>>

\* mutant: the upload handler writes the ledger whatever the transport said
UploadLogs_Always(res) == TRUE

\* mutant: the upload handler writes the ledger when the transport failed
UploadLogs_OnFailure(res) == ~res.success

\* whether the upload handler writes the ledger for this transport result
UploadLogs(res) == res.success

\* lines 254-290: on success log the transfer and the activity, answer 200;
\* otherwise answer 500.  On PostgreSQL either insert may fail and return
\* None, and the insert of a transfer the table does not accept does fail.
\* An exception in the handler is answered 500 'Upload failed'.
UploadFinish(p) ==
    /\ At(p, "ret")
    /\ loc[p].hk = "upload"
    /\ LET l == loc[p] IN
       IF UploadLogs(l.res) /\ CompressionRatio(Len(l.raw), CompressedSize(l.raw)).raised
       THEN /\ loc' = [loc EXCEPT ![p].resp =
                         [NoResp EXCEPT !.status = 500, !.error = "Upload failed"]]
            /\ UNCHANGED <<db, logged>>
       ELSE IF UploadLogs(l.res)
       THEN \E t_ok, a_ok \in BOOLEAN :
              /\ db.memory_mode => (t_ok /\ a_ok)
              /\ t_ok => InsertAccepted(db, TransferData(l))
              /\ LET d1 == IF t_ok THEN LogTransfer(db, TransferData(l)) ELSE db
                     id == IF t_ok THEN LastTransferId(d1) ELSE 0
                     d2 == IF a_ok THEN LogActivity(d1, l.user, "file_upload") ELSE d1
                 IN /\ db' = d2
                    /\ logged' = IF t_ok
                                THEN [t \in DOMAIN logged \cup {id} |->
                                        IF t = id THEN LoggedUpload(l) ELSE logged[t]]
                                ELSE logged
                    /\ loc' = [loc EXCEPT ![p].resp =
                                 [NoResp EXCEPT !.status = 200, !.message = UploadedMsg,
                                                !.transfer_id = id,
                                                !.size = Len(l.raw),
                                                !.compressed_size = CompressedSize(l.raw),
                                                !.compression_ratio =
                                                    TransferData(l).compression_ratio,
                                                !.remote_filename = l.remote_filename]]
       ELSE /\ loc' = [loc EXCEPT ![p].resp =
                         [NoResp EXCEPT !.status = 500,
                                        !.error = "Upload failed: " \o l.res.error]]
            /\ UNCHANGED <<db, logged>>
    /\ Goto(p, "resp")
    /\ UNCHANGED <<mem, crypto, env, hostKnown, mgr, sessions, tmpFiles, remoteDir,
                   remoteFiles, now, opsLeft>>

\* ----------------------------------------------------- server.download_file
\* lines 312-318: look the transfer up for the caller, then download_file
DownloadBegin(p, u, transfer_id) ==
    /\ CanStart(p)
    /\ LET l == [IdleLoc EXCEPT !.user = u, !.tid = transfer_id] IN
       IF HasTransfer(db, transfer_id, u)
       THEN LET name == db.transfers[transfer_id].remote_filename IN
            /\ loc' = [loc EXCEPT ![p] = Enter(l, "download", "get", name, NoData)]
            /\ Goto(p, EnterPc("get", name))
       ELSE /\ loc' = [loc EXCEPT ![p] =
                         [l EXCEPT !.hk = "download",
                                   !.resp = [NoResp EXCEPT !.status = 404,
                                               !.error = "Transfer not found or access denied"]]]
            /\ Goto(p, "resp")
    /\ opsLeft' = opsLeft - 1
    /\ UNCHANGED <<mem, crypto, env, hostKnown, mgr, sessions, tmpFiles, remoteDir,
                   remoteFiles, now, db, logged>>

\* mutant: the download handler answers a failed decryption as a failed get
DownloadResponse_OneError(res) ==
    IF ~res.success \/ ~CanDecrypt(EngineKey, res.data)
    THEN [NoResp EXCEPT !.status = 500, !.error = "Download failed: " \o res.error,
                        !.stages = <<"get">>]
    ELSE IF ~CanDecompress(FernetDecrypt(EngineKey, res.data))
    THEN [NoResp EXCEPT !.status = 500, !.error = "Decompression failed",
                        !.stages = <<"get", "decrypt", "decompress">>]
    ELSE LET decompressed_data == GzipDecompress(FernetDecrypt(EngineKey, res.data))
         IN [NoResp EXCEPT !.status = 200, !.data = decompressed_data,
                           !.size = ByteLen(decompressed_data),
                           !.stages = <<"get", "decrypt", "decompress">>]

\* lines 320-350: the response of the download handler to a transport result;
\* stages lists the calls the handler made (download_file, aes_cipher.decrypt,
\* gzip.decompress) before it answered
DownloadResponse(res) ==
    IF ~res.success
    THEN [NoResp EXCEPT !.status = 500, !.error = "Download failed: " \o res.error,
                        !.stages = <<"get">>]
    ELSE IF ~CanDecrypt(EngineKey, res.data)
    THEN [NoResp EXCEPT !.status = 500, !.error = "Decryption failed",
                        !.stages = <<"get", "decrypt">>]
    ELSE IF ~CanDecompress(FernetDecrypt(EngineKey, res.data))
    THEN [NoResp EXCEPT !.status = 500, !.error = "Decompression failed",
                        !.stages = <<"get", "decrypt", "decompress">>]
    ELSE LET decompressed_data == GzipDecompress(FernetDecrypt(EngineKey, res.data))
         IN [NoResp EXCEPT !.status = 200, !.data = decompressed_data,
                           !.size = ByteLen(decompressed_data),
                           !.stages = <<"get", "decrypt", "decompress">>]

DownloadFinish(p) ==
    /\ At(p, "ret")
    /\ loc[p].hk = "download"
    /\ LET r == DownloadResponse(loc[p].res) IN
       /\ loc' = [loc EXCEPT ![p].resp = [r EXCEPT !.transfer_id = loc[p].tid]]
       /\ IF r.status = 200
          THEN \E a_ok \in BOOLEAN :
                 /\ db.memory_mode => a_ok
                 /\ db' = IF a_ok THEN LogActivity(db, loc[p].user, "file_download")
                          ELSE db
          ELSE UNCHANGED db
    /\ Goto(p, "resp")
    /\ UNCHANGED <<mem, crypto, env, hostKnown, mgr, sessions, tmpFiles, remoteDir,
                   remoteFiles, now, logged, opsLeft>>

\* ------------------------------------------------- the SFTP server's owner
\* a key other than the one of aes_cipher
ForeignKey == 2

\* objects somebody else may put in place of one on the SFTP server: bytes
\* that are no token, a token of aes_cipher's key that holds no gzip stream
\* (as AESCipher.encrypt_file writes), a token under another key, and a token
\* of aes_cipher's key that holds a gzip stream
ForeignObjects ==
    { Plain(<<1>>),
      FernetEncrypt(EngineKey, 0, Plain(<<1>>)),
      FernetEncrypt(ForeignKey, 0, GzipCompress(Plain(<<1>>))),
      FernetEncrypt(EngineKey, 0, GzipCompress(Plain(<<1>>))) }

\* the content of an object on the server is replaced outside this program
ServerSideWrite(path, c) ==
    /\ Exists(path)
    /\ remoteFiles[path].data # c
    /\ remoteFiles' = [remoteFiles EXCEPT ![path].data = c]
    /\ UNCHANGED <<mem, crypto, env, hostKnown, mgr, pc, loc, sessions, tmpFiles, remoteDir,
                   now, db, logged, opsLeft>>

\* the handler has answered: the thread takes the next request
Respond(p) ==
    /\ At(p, "resp")
    /\ loc' = [loc EXCEPT ![p] = IdleLoc]
    /\ Goto(p, "idle")
    /\ UNCHANGED <<mem, crypto, env, hostKnown, mgr, sessions, tmpFiles, remoteDir,
                   remoteFiles, now, db, logged, opsLeft>>

\* ------------------------------------------- direct calls of the transport
\* a caller invokes one of the five public methods of sftp_manager
DirectCall(p, op, arg, data) ==
    /\ CanStart(p)
    /\ loc' = [loc EXCEPT ![p] = Enter(IdleLoc, "direct", op, arg, data)]
    /\ Goto(p, EnterPc(op, arg))
    /\ opsLeft' = opsLeft - 1
    /\ UNCHANGED <<mem, crypto, env, hostKnown, mgr, sessions, tmpFiles, remoteDir,
                   remoteFiles, now, db, logged>>

\* the caller has the result
DirectReturn(p) ==
    /\ At(p, "ret")
    /\ loc[p].hk = "direct"
    /\ loc' = [loc EXCEPT ![p] = IdleLoc]
    /\ Goto(p, "idle")
    /\ UNCHANGED <<mem, crypto, env, hostKnown, mgr, sessions, tmpFiles, remoteDir,
                   remoteFiles, now, db, logged, opsLeft>>

\* ===================================================== encryption.py: text
\* the printable ASCII characters in code order, from ' ' (32) to '~' (126);
\* the grave accent (96) is written <96>
AsciiChars ==
    <<
      " ", "!", "\"", "#", "$", "%", "&", "'", "(", ")", "*", "+",
      ",", "-", ".", "/", "0", "1", "2", "3", "4", "5", "6", "7",
      "8", "9", ":", ";", "<", "=", ">", "?", "@", "A", "B", "C",
      "D", "E", "F", "G", "H", "I", "J", "K", "L", "M", "N", "O",
      "P", "Q", "R", "S", "T", "U", "V", "W", "X", "Y", "Z", "[",
      "\\", "]", "^", "_", "<96>", "a", "b", "c", "d", "e", "f", "g",
      "h", "i", "j", "k", "l", "m", "n", "o", "p", "q", "r", "s",
      "t", "u", "v", "w", "x", "y", "z", "{", "|", "}", "~"
    >>

\* ord(c) and chr(n) for a printable ASCII character
Ord(c) == 31 + (CHOOSE i \in DOMAIN AsciiChars : AsciiChars[i] = c)
Chr(n) == AsciiChars[n - 31]

\* str.encode('utf-8') of ASCII text: one byte per character
Utf8Encode(text) == [i \in DOMAIN text |-> Ord(text[i])]
\* bytes.decode('utf-8') raises on a byte that starts no character; the
\* bytes of this model are printable ASCII or such a byte
CanUtf8Decode(bytes) == \A i \in DOMAIN bytes : bytes[i] >= 32 /\ bytes[i] <= 126
Utf8Decode(bytes) == [i \in DOMAIN bytes |-> Chr(bytes[i])]

\* n.to_bytes(4, byteorder='big') for n < 2**32
ToBytes4(n) ==
    <<(n \div 16777216) % 256, (n \div 65536) % 256, (n \div 256) % 256, n % 256>>

\* int.from_bytes(bytes, byteorder='big')
RECURSIVE FromBytes(_)
FromBytes(bytes) ==
    IF bytes = <<>> THEN 0
    ELSE 256 * FromBytes(SubSeq(bytes, 1, Len(bytes) - 1)) + bytes[Len(bytes)]

Min(a, b) == IF a < b THEN a ELSE b

\* bytes[lo:hi] and bytes[lo:]: a slice is clamped to the bytes there are
Slice(bytes, lo, hi) == SubSeq(bytes, lo + 1, Min(hi, Len(bytes)))
SliceFrom(bytes, lo) == SubSeq(bytes, lo + 1, Len(bytes))

\* ------------------------------------------------------------ Python values
\* the values a metadata dictionary holds: str, int, None and dict (a dict is
\* the sequence of its items in insertion order)
PyNone == [t |-> "none", s |-> <<>>, n |-> 0, kids |-> <<>>]
PyStr(s) == [t |-> "str", s |-> s, n |-> 0, kids |-> <<>>]
PyInt(n) == [t |-> "int", s |-> <<>>, n |-> n, kids |-> <<>>]
PyDict(kids) == [t |-> "dict", s |-> <<>>, n |-> 0, kids |-> kids]
Item(k, v) == [k |-> k, v |-> v]

\* ------------------------------------------------------------ str(dict)
RECURSIVE IntStr(_)
IntStr(n) ==
    IF n < 10 THEN <<Digits[n + 1]>>
    ELSE IntStr(n \div 10) \o <<Digits[(n % 10) + 1]>>

Has(s, c) == \E i \in DOMAIN s : s[i] = c

\* repr of a str: double quotes when it holds ' and no ", else single quotes;
\* the quote in use and the backslash are escaped
QuoteFor(s) == IF Has(s, "'") /\ ~Has(s, "\"") THEN "\"" ELSE "'"

RECURSIVE EscapeStr(_, _)
EscapeStr(s, q) ==
    IF s = <<>> THEN <<>>
    ELSE (IF Head(s) = "\\" \/ Head(s) = q THEN <<"\\", Head(s)>> ELSE <<Head(s)>>)
         \o EscapeStr(Tail(s), q)

\* a repr that wraps the text in single quotes and escapes nothing
ReprStr_NoEscape(s) == <<"'">> \o s \o <<"'">>

ReprStr(s) == <<QuoteFor(s)>> \o EscapeStr(s, QuoteFor(s)) \o <<QuoteFor(s)>>

RECURSIVE ReprVal(_), ReprItems(_)
ReprItems(kids) ==
    IF kids = <<>> THEN <<>>
    ELSE ReprStr(Head(kids).k) \o <<":", " ">> \o ReprVal(Head(kids).v)
         \o (IF Tail(kids) = <<>> THEN <<>> ELSE <<",", " ">> \o ReprItems(Tail(kids)))

ReprVal(v) ==
    IF v.t = "str" THEN ReprStr(v.s)
    ELSE IF v.t = "int" THEN IntStr(v.n)
    ELSE IF v.t = "none" THEN <<"N", "o", "n", "e">>
    ELSE <<"{">> \o ReprItems(v.kids) \o <<"}">>

\* ---------------------------------------------------------------- eval(text)
\* The expressions read: dict displays with str keys, str and int literals,
\* None, and a call name() of a function, which runs it.  A result is the
\* value, the position after it, and the calls evaluating it makes.
Quotes == {"'", "\""}
Lowercase == {"a", "b", "c", "d", "e", "f", "g", "h", "i", "j", "k", "l", "m",
              "n", "o", "p", "q", "r", "s", "t", "u", "v", "w", "x", "y", "z"}
DigitChars == {Digits[i] : i \in DOMAIN Digits}
DigitVal(c) == (CHOOSE i \in DOMAIN Digits : Digits[i] = c) - 1

PFail == [ok |-> FALSE, val |-> PyNone, next |-> 0, eff |-> {}]
POk(val, next, eff) == [ok |-> TRUE, val |-> val, next |-> next, eff |-> eff]

\* text holds lit at position i
Expect(text, i, lit) ==
    i + Len(lit) - 1 <= Len(text) /\ SubSeq(text, i, i + Len(lit) - 1) = lit

\* the rest of a str literal opened with quote q, from position j
RECURSIVE ScanStr(_, _, _, _)
ScanStr(text, j, q, acc) ==
    IF j > Len(text) THEN PFail
    ELSE IF text[j] = q THEN POk(PyStr(acc), j + 1, {})
    ELSE IF text[j] = "\\"
         THEN IF j + 1 <= Len(text) /\ text[j + 1] \in Quotes \cup {"\\"}
              THEN ScanStr(text, j + 2, q, Append(acc, text[j + 1]))
              ELSE PFail
    ELSE ScanStr(text, j + 1, q, Append(acc, text[j]))

\* the end of the run of characters of set cs that starts at position j
RECURSIVE RunEnd(_, _, _)
RunEnd(text, j, cs) ==
    IF j <= Len(text) /\ text[j] \in cs THEN RunEnd(text, j + 1, cs) ELSE j

RECURSIVE DigitsVal(_)
DigitsVal(ds) ==
    IF ds = <<>> THEN 0
    ELSE 10 * DigitsVal(SubSeq(ds, 1, Len(ds) - 1)) + DigitVal(ds[Len(ds)])

\* an int literal: digits, with no leading zero before another digit
ParseInt(text, i) ==
    LET e == RunEnd(text, i, DigitChars) IN
    IF e > i + 1 /\ text[i] = "0" THEN PFail
    ELSE POk(PyInt(DigitsVal(SubSeq(text, i, e - 1))), e, {})

\* name(): the call is made when the expression is evaluated
ParseCall(text, i) ==
    LET e == RunEnd(text, i, Lowercase) IN
    IF Expect(text, e, <<"(", ")">>)
    THEN POk(PyNone, e + 2, {SubSeq(text, i, e - 1)})
    ELSE PFail

RECURSIVE ParseValue(_, _), ParseItems(_, _, _, _)
ParseValue(text, i) ==
    IF i > Len(text) THEN PFail
    ELSE IF text[i] \in Quotes THEN ScanStr(text, i + 1, text[i], <<>>)
    ELSE IF text[i] \in DigitChars THEN ParseInt(text, i)
    ELSE IF Expect(text, i, <<"N", "o", "n", "e">>) THEN POk(PyNone, i + 4, {})
    ELSE IF text[i] \in Lowercase THEN ParseCall(text, i)
    ELSE IF text[i] = "{"
         THEN IF Expect(text, i + 1, <<"}">>) THEN POk(PyDict(<<>>), i + 2, {})
              ELSE ParseItems(text, i + 1, <<>>, {})
    ELSE PFail

\* the items of a dict display from position i, after the items acc
ParseItems(text, i, acc, eff) ==
    IF i > Len(text) \/ text[i] \notin Quotes THEN PFail
    ELSE LET k == ScanStr(text, i + 1, text[i], <<>>) IN
         IF ~k.ok \/ ~Expect(text, k.next, <<":", " ">>) THEN PFail
         ELSE LET v == ParseValue(text, k.next + 2) IN
              IF ~v.ok THEN PFail
              ELSE LET items == Append(acc, Item(k.val.s, v.val))
                       effs == eff \cup v.eff
                   IN IF Expect(text, v.next, <<"}">>)
                      THEN POk(PyDict(items), v.next + 1, effs)
                      ELSE IF Expect(text, v.next, <<",", " ">>)
                      THEN ParseItems(text, v.next + 2, items, effs)
                      ELSE PFail

\* text without the spaces before and after it
RECURSIVE StripSpaces(_)
StripSpaces(text) ==
    IF text # <<>> /\ Head(text) = " " THEN StripSpaces(Tail(text))
    ELSE IF text # <<>> /\ text[Len(text)] = " "
         THEN StripSpaces(SubSeq(text, 1, Len(text) - 1))
    ELSE text

\* eval(text): SyntaxError unless the text, spaces around it aside, is one
\* expression
Eval(text) ==
    LET src == StripSpaces(text)
        r == ParseValue(src, 1)
    IN IF r.ok /\ r.next = Len(src) + 1 THEN r ELSE PFail

\* ================================================= encryption.py: AESCipher
\* A value of ENCRYPTION_KEY, by what base64 makes of it: unset, empty, text
\* that urlsafe_b64decode rejects (badpad), or the depth-fold base64 encoding
\* of len random bytes named id (depth 0 is the bytes themselves).
KeyUnset == [kind |-> "unset", depth |-> 0, len |-> 0, id |-> 0]
KeyEmpty == [kind |-> "empty", depth |-> 0, len |-> 0, id |-> 0]
KeyBadPad == [kind |-> "badpad", depth |-> 0, len |-> 0, id |-> 0]
B64(depth, len, id) == [kind |-> "b64", depth |-> depth, len |-> len, id |-> id]

\* if key_b64:
KeyTruthy(key_b64) == key_b64.kind \notin {"unset", "empty"}
\* base64.urlsafe_b64decode(key_b64.encode()) raises binascii.Error or returns
CanB64Decode(x) == x.kind = "b64" /\ x.depth >= 1
B64Decode(x) == [x EXCEPT !.depth = @ - 1]
\* Fernet(key) raises ValueError unless key is the base64 text of 32 bytes
FernetKeyOk(key) == key.kind = "b64" /\ key.depth = 1 /\ key.len = 32

\* os.getenv('ENCRYPTION_SALT', 'secure-sftp-salt')
DefaultSalt ==
    <<"s", "e", "c", "u", "r", "e", "-", "s", "f", "t", "p", "-", "s", "a", "l", "t">>

\* _derive_key_from_password: PBKDF2 of the password under the first 16
\* bytes of the salt, a key of its own for each (password, salt)
DerivedKey(password, salt) ==
    LET salt16 == SubSeq(salt, 1, Min(16, Len(salt))) IN
    B64(1, 32, 100 + 10 * Len(password) + (IF salt16 = DefaultSalt THEN 0 ELSE 1))

\* _generate_key: Fernet.generate_key(), 32 fresh random bytes in base64
GeneratedKey == B64(1, 32, 30)

NoEngine == [status |-> "none", source |-> "none", key |-> KeyUnset]
Engine(source, key) ==
    IF FernetKeyOk(key) THEN [status |-> "ok", source |-> source, key |-> key]
    ELSE [status |-> "raised", source |-> source, key |-> key]

\* AESCipher.__init__(password) under the environment's ENCRYPTION_KEY and
\* ENCRYPTION_SALT
AESCipherInit(password, key_b64, salt_env) ==
    IF Truthy(password)
    THEN Engine("password",
                DerivedKey(password, Getenv([s |-> salt_env], "s", DefaultSalt)))
    ELSE IF KeyTruthy(key_b64)
         THEN IF CanB64Decode(key_b64) THEN Engine("configured", B64Decode(key_b64))
              ELSE Engine("random", GeneratedKey)
    ELSE Engine("random", GeneratedKey)

\* a byte of a token was changed
FlipLayer == [l |-> "flip", key |-> 0, iv |-> 0]
Altered(c) == [c EXCEPT !.layers = Append(@, FlipLayer)]

\* mutant: encrypt takes its data for text and keeps what decodes
AESEncrypt_AsText(key, iv, data) ==
    FernetEncrypt(key.id, iv, Plain(SelectSeq(data, LAMBDA b : b >= 32 /\ b <= 126)))

\* AESCipher.encrypt(data) for bytes, with the IV Fernet draws
AESEncrypt(key, iv, data) == FernetEncrypt(key.id, iv, Plain(data))

NoOut == [op |-> "none", success |-> FALSE, error |-> "", data |-> <<>>,
          meta |-> PyNone, size |-> 0]

\* mutant: decrypt returns what the token holds without verifying it
AESDecrypt_Unverified(key, token) ==
    [NoOut EXCEPT !.op = "decrypt", !.success = TRUE, !.data = token.b]

\* AESCipher.decrypt(encrypted_data): the plaintext, or raises
\* Exception('Decryption failed: ...')
AESDecrypt(key, token) ==
    IF CanDecrypt(key.id, token)
    THEN [NoOut EXCEPT !.op = "decrypt", !.success = TRUE,
                       !.data = FernetDecrypt(key.id, token).b]
    ELSE [NoOut EXCEPT !.op = "decrypt", !.error = "Decryption failed"]

\* ====================================== encryption.py: FileEncryptionManager
\* os.urandom(16).hex(): 32 hexadecimal digits
HexToken(d) == [i \in 1..32 |-> d]

\* file_metadata of encrypt_with_metadata
FileMetadata(data, filename, metadata, token) ==
    PyDict(<<Item(<<"f", "i", "l", "e", "n", "a", "m", "e">>, PyStr(filename)),
             Item(<<"s", "i", "z", "e">>, PyInt(Len(data))),
             Item(<<"e", "n", "c", "r", "y", "p", "t", "e", "d", "_", "a", "t">>,
                  PyStr(token)),
             Item(<<"m", "e", "t", "a", "d", "a", "t", "a">>,
                  IF metadata.t = "dict" /\ metadata.kids # <<>> THEN metadata
                  ELSE PyDict(<<>>))>>)

\* metadata_length + metadata_json + data
CombinedData(file_metadata, data) ==
    LET metadata_json == Utf8Encode(ReprVal(file_metadata)) IN
    ToBytes4(Len(metadata_json)) \o metadata_json \o data

\* encrypt_with_metadata(data, filename, metadata): the encrypted_data
EncryptWithMetadata(key, iv, data, filename, metadata, token) ==
    AESEncrypt(key, iv, CombinedData(FileMetadata(data, filename, metadata, token), data))

\* decrypt_with_metadata(encrypted_data): the result, and the calls eval made
DecryptWithMetadata(key, encrypted_data) ==
    LET d == AESDecrypt(key, encrypted_data)
        failed == [NoOut EXCEPT !.op = "unwrap"]
    IN
    IF ~d.success
    THEN [out |-> [failed EXCEPT !.error = d.error], eff |-> {}]
    ELSE LET decrypted_combined == d.data
             metadata_length == FromBytes(Slice(decrypted_combined, 0, 4))
             metadata_json == Slice(decrypted_combined, 4, 4 + metadata_length)
         IN
         IF ~CanUtf8Decode(metadata_json)
         THEN [out |-> [failed EXCEPT !.error = "UnicodeDecodeError"], eff |-> {}]
         ELSE LET r == Eval(Utf8Decode(metadata_json))
                  original_data == SliceFrom(decrypted_combined, 4 + metadata_length)
              IN
              IF ~r.ok
              THEN [out |-> [failed EXCEPT !.error = "SyntaxError"], eff |-> {}]
              ELSE [out |-> [failed EXCEPT !.success = TRUE, !.data = original_data,
                                           !.meta = r.val, !.size = Len(original_data)],
                    eff |-> r.eff]

\* dict[key], None when the key is absent
Lookup(d, key) ==
    IF \E i \in DOMAIN d.kids : d.kids[i].k = key
    THEN d.kids[CHOOSE i \in DOMAIN d.kids : d.kids[i].k = key].v
    ELSE PyNone

\* ---------------------------------------------- the encryption module in use
\* how the token at hand came about
NotMade == [by |-> "none", key |-> KeyUnset, p |-> <<>>, f |-> <<>>, m |-> PyNone,
            n |-> PyNone, altered |-> FALSE]

NoCrypto ==
    [password |-> NoVal, key_b64 |-> KeyUnset, salt |-> NoVal, engine |-> NoEngine,
     token |-> NoData, made |-> NotMade, out |-> NoOut, effects |-> {}, left |-> 0]

SystemFrame ==
    UNCHANGED <<mem, env, hostKnown, mgr, pc, loc, sessions, tmpFiles, remoteDir,
                remoteFiles, now, db, logged, opsLeft>>

\* cipher = AESCipher(password)
EngineConstruct ==
    /\ crypto.engine.status = "none"
    /\ crypto' = [crypto EXCEPT
                    !.engine = AESCipherInit(crypto.password, crypto.key_b64, crypto.salt)]
    /\ SystemFrame

EngineReady == crypto.engine.status = "ok" /\ crypto.left > 0

\* token = cipher.encrypt(data)
Encrypt(data) ==
    /\ EngineReady
    /\ crypto' = [crypto EXCEPT
                    !.token = AESEncrypt(crypto.engine.key, crypto.left, data),
                    !.made = [NotMade EXCEPT !.by = "encrypt", !.key = crypto.engine.key,
                                             !.p = data],
                    !.out = NoOut,
                    !.left = @ - 1]
    /\ SystemFrame

\* token = FileEncryptionManager(cipher).encrypt_with_metadata(...)['encrypted_data']
Wrap(data, filename, metadata, hex) ==
    /\ EngineReady
    /\ crypto' = [crypto EXCEPT
                    !.token = EncryptWithMetadata(crypto.engine.key, crypto.left, data,
                                                  filename, metadata, HexToken(hex)),
                    !.made = [NotMade EXCEPT
                                !.by = "wrap", !.key = crypto.engine.key, !.p = data,
                                !.f = filename, !.m = metadata,
                                !.n = FileMetadata(data, filename, metadata, HexToken(hex))],
                    !.out = NoOut,
                    !.left = @ - 1]
    /\ SystemFrame

\* a token somebody else made: under another key, or bytes that are no token
Receive(c) ==
    /\ EngineReady
    /\ crypto' = [crypto EXCEPT !.token = c,
                                !.made = [NotMade EXCEPT !.by = "foreign"],
                                !.out = NoOut,
                                !.left = @ - 1]
    /\ SystemFrame

\* the token at hand is changed in a byte, or cut short, on its way
Damage(c) ==
    /\ crypto.made.by # "none"
    /\ ~crypto.made.altered
    /\ c \in {Altered(crypto.token), Truncated(crypto.token)}
    /\ crypto' = [crypto EXCEPT !.token = c, !.made.altered = TRUE, !.out = NoOut]
    /\ SystemFrame

\* cipher.decrypt(token)
Decrypt ==
    /\ crypto.engine.status = "ok"
    /\ crypto.made.by # "none"
    /\ crypto' = [crypto EXCEPT !.out = AESDecrypt(crypto.engine.key, crypto.token)]
    /\ SystemFrame

\* FileEncryptionManager(cipher).decrypt_with_metadata(token)
Unwrap ==
    /\ crypto.engine.status = "ok"
    /\ crypto.made.by # "none"
    /\ LET r == DecryptWithMetadata(crypto.engine.key, crypto.token) IN
       crypto' = [crypto EXCEPT !.out = r.out, !.effects = @ \cup r.eff]
    /\ SystemFrame

\* =========================== database.py: the in-memory ledger, by statement
\* the request-handling threads a specification may start
AllThreads == {1, 2}

\* the methods that draw an id, and the table each writes
IdCallers == {"create_user", "log_transfer", "log_activity", "create_session"}
TableOf(op) ==
    CASE op = "create_user" -> "users"
      [] op = "log_transfer" -> "transfers"
      [] op = "log_activity" -> "activities"
      [] op = "create_session" -> "sessions"
Tables == {TableOf(op) : op \in IdCallers}

\* a thread outside the Database, and the locals of a thread inside it
NoCall == [op |-> "none", at |-> "idle", loaded |-> 0, id |-> 0, seq |-> 0]

\* _use_memory_storage: empty tables and next_id = 1.  issued and created
\* are history: the ids _get_next_id returned, and the records inserted.
NewMem ==
    [next_id |-> 1,
     tables |-> [t \in Tables |-> <<>>],
     calls |-> [p \in AllThreads |-> NoCall],
     issued |-> <<>>,
     created |-> {},
     left |-> 0]

MemFrame ==
    UNCHANGED <<crypto, env, hostKnown, mgr, pc, loc, sessions, tmpFiles, remoteDir,
                remoteFiles, now, db, logged, opsLeft>>

\* a request thread enters create_user, log_transfer, log_activity or
\* create_session in memory mode
MemCall(p, op) ==
    /\ mem.calls[p].at = "idle"
    /\ mem.left > 0
    /\ mem' = [mem EXCEPT !.calls[p] = [NoCall EXCEPT !.op = op, !.at = "load",
                                                      !.seq = mem.left],
                          !.left = @ - 1]
    /\ MemFrame

\* self.next_id += 1, first half: the value of self.next_id is loaded
IdLoad(p) ==
    /\ mem.calls[p].at = "load"
    /\ mem' = [mem EXCEPT !.calls[p].loaded = mem.next_id, !.calls[p].at = "store"]
    /\ MemFrame

\* self.next_id += 1, second half: the sum is stored
IdStore(p) ==
    /\ mem.calls[p].at = "store"
    /\ mem' = [mem EXCEPT !.next_id = mem.calls[p].loaded + 1, !.calls[p].at = "return"]
    /\ MemFrame

\* return str(self.next_id): self.next_id is read again
IdReturn(p) ==
    /\ mem.calls[p].at = "return"
    /\ mem' = [mem EXCEPT !.calls[p].id = mem.next_id, !.calls[p].at = "insert",
                          !.issued = Append(@, mem.next_id)]
    /\ MemFrame

\* data['id'] = id; self.memory_storage[table][id] = data; return id
MemInsert(p) ==
    /\ mem.calls[p].at = "insert"
    /\ LET c == mem.calls[p]
           t == TableOf(c.op)
           rec == [id |-> c.id, by |-> p, seq |-> c.seq]
       IN mem' = [mem EXCEPT
                    !.tables[t] = [i \in DOMAIN @ \cup {c.id} |->
                                     IF i = c.id THEN rec ELSE @[i]],
                    !.created = @ \cup {[table |-> t, id |-> c.id, seq |-> c.seq]},
                    !.calls[p] = NoCall]
    /\ MemFrame

\* ------------------------------------------------------------ the inputs
\* remote names handed to put, get and delete
Names ==
    { <<"f">>,                      \* f
      <<".", "f">>,                 \* .f
      <<"/", "f">>,                 \* /f
      <<"d", "/", "f">>,            \* d/f
      <<".", ".", "/", "f">>,       \* ../f
      <<".", ".">>,                 \* ..
      <<"d", "/">>,                 \* d/
      <<"d", "/", ".", "f">>,       \* d/.f
      <<>> }                        \* ''

\* directories handed to list
Dirs ==
    { NoVal,                                  \* None
      <<"d">>,                                \* d
      <<".", "d">>,                           \* .d
      <<"/", "d">>,                           \* /d
      <<".", ".">>,                           \* ..
      <<"d", "/", ".", ".", "/", "e">> }      \* d/../e

\* bytes handed to a direct put
DirectData == {Plain(<<7>>)}

\* file names and contents of the upload requests
Filenames == { <<"f">>, <<"d", "/", "f">>, <<"f", "/">> }
Raws == { <<>>, <<1>> }

\* transfer ids a download request may name: the logged ones, and one that
\* names no record
TransferIds == DOMAIN db.transfers \cup {0}

\* ------------------------------------------------------------------ specs
NewDb(memory_mode) ==
    [memory_mode |-> memory_mode, next_id |-> 1, serial |-> 0,
     transfers |-> <<>>, activities |-> <<>>]

InitWith(envs, threads, modes, ops) ==
    /\ env \in envs
    /\ hostKnown \in BOOLEAN
    /\ mgr = NotConstructed
    /\ pc = [p \in threads |-> "idle"]
    /\ loc = [p \in threads |-> IdleLoc]
    /\ sessions = <<>>
    /\ tmpFiles = {}
    /\ remoteDir = FALSE
    /\ remoteFiles = <<>>
    /\ now = 0
    /\ db \in {NewDb(m) : m \in modes}
    /\ logged = <<>>
    /\ opsLeft = ops
    /\ crypto = NoCrypto
    /\ mem = NewMem

\* the transport manager under direct calls of its five public methods
Init == InitWith(Envs, {1}, {TRUE}, MaxOps)

CallPut == \E p \in AllThreads, n \in Names, d \in DirectData : DirectCall(p, "put", n, d)
CallGet == \E p \in AllThreads, n \in Names : DirectCall(p, "get", n, NoData)
CallDelete == \E p \in AllThreads, n \in Names : DirectCall(p, "delete", n, NoData)
CallList == \E p \in AllThreads, d \in Dirs : DirectCall(p, "list", d, NoData)
CallTest == \E p \in AllThreads : DirectCall(p, "test", NoVal, NoData)

\* the steps of _get_sftp_connection and of the finally blocks
ConnSteps ==
    \/ \E p \in AllThreads : ConnNew(p)
    \/ \E p \in AllThreads : ConnTransport(p)
    \/ \E p \in AllThreads : ConnAuth(p)
    \/ \E p \in AllThreads : ConnOpenSftp(p)
    \/ \E p \in AllThreads : Finally(p)

PutSteps ==
    \/ \E p \in AllThreads : PutListdir(p)
    \/ \E p \in AllThreads : PutMkdir(p)
    \/ \E p \in AllThreads : PutTemp(p)
    \/ \E p \in AllThreads : PutPut(p)
    \/ \E p \in AllThreads : PutChmod(p)

GetSteps ==
    \/ \E p \in AllThreads : GetStat(p)
    \/ \E p \in AllThreads : GetTemp(p)
    \/ \E p \in AllThreads : GetGet(p)
    \/ \E p \in AllThreads : GetRead(p)

Next ==
    \/ Construct
    \/ CallPut
    \/ CallGet
    \/ CallDelete
    \/ CallList
    \/ CallTest
    \/ ConnSteps
    \/ PutSteps
    \/ GetSteps
    \/ \E p \in AllThreads : ListAttr(p)
    \/ \E p \in AllThreads : DelStat(p)
    \/ \E p \in AllThreads : DelRemove(p)
    \/ \E p \in AllThreads : TestListdir(p)
    \/ \E p \in AllThreads : DirectReturn(p)

Spec == Init /\ [][Next]_vars

\* the server: upload and download requests against a configured transport
ServerEnvs ==
    [SFTP_HOST : {<<"h">>},
     SFTP_USERNAME : {<<"u">>},
     SFTP_PASSWORD : {<<"p">>},
     SFTP_DEV_MODE : {NoVal},
     SFTP_ACCEPT_UNKNOWN_HOSTS : {NoVal}]

ServerInit == InitWith(ServerEnvs, {1}, BOOLEAN, MaxOps)

\* upload requests by the given users, of the given files
UploadsWith(users, filenames, raws) ==
    \E p \in AllThreads, u \in users, f \in filenames, raw \in raws, t \in 0..MaxTicks :
        UploadBegin(p, u, f, raw, t)
UploadsOf(users, filenames) == UploadsWith(users, filenames, Raws)
DownloadsBy(users) ==
    \E p \in AllThreads, u \in users, t \in TransferIds : DownloadBegin(p, u, t)

Upload == UploadsOf(Users, Filenames)
Download == DownloadsBy(Users)

HandlerSteps ==
    \/ \E p \in AllThreads : UploadFinish(p)
    \/ \E p \in AllThreads : DownloadFinish(p)
    \/ \E p \in AllThreads : Respond(p)

ServerNext ==
    \/ Construct
    \/ Upload
    \/ Download
    \/ ConnSteps
    \/ PutSteps
    \/ GetSteps
    \/ HandlerSteps

ServerSpec == ServerInit /\ [][ServerNext]_vars

\* one caller uploading and downloading one file name, one request longer
RoundTripInit == InitWith(ServerEnvs, {1}, {TRUE}, MaxOps + 1)

RoundTripNext ==
    \/ Construct
    \/ UploadsOf({1}, {<<"f">>})
    \/ DownloadsBy({1})
    \/ ConnSteps
    \/ PutSteps
    \/ GetSteps
    \/ HandlerSteps

RoundTripSpec == RoundTripInit /\ [][RoundTripNext]_vars

\* one caller uploading every kind of file name and downloading, with the
\* ledger in memory or on PostgreSQL
LedgerInit == InitWith(ServerEnvs, {1}, BOOLEAN, MaxOps)

LedgerNext ==
    \/ Construct
    \/ UploadsOf({1}, Filenames)
    \/ DownloadsBy({1})
    \/ ConnSteps
    \/ PutSteps
    \/ GetSteps
    \/ HandlerSteps

LedgerSpec == LedgerInit /\ [][LedgerNext]_vars

\* one caller uploading and downloading while objects on the server are
\* replaced from outside
DownloadInit == InitWith(ServerEnvs, {1}, {TRUE}, MaxOps)

\* the paths under which the uploads of this caller are stored
ObjectPaths ==
    {RemoteFilePath([remote_path |-> DefaultRemotePath],
                    Basename(RemoteFilename(Username(1), t, <<"f">>))) : t \in 0..MaxTicks}

DownloadNext ==
    \/ Construct
    \/ UploadsOf({1}, {<<"f">>})
    \/ DownloadsBy({1})
    \/ \E path \in ObjectPaths, c \in ForeignObjects : ServerSideWrite(path, c)
    \/ ConnSteps
    \/ PutSteps
    \/ GetSteps
    \/ HandlerSteps

DownloadSpec == DownloadInit /\ [][DownloadNext]_vars

\* two threads calling the five public methods of the one sftp_manager at
\* the same time
SharedNames == {<<"f">>}
SharedDirs == {NoVal}

SharedInit == InitWith(ServerEnvs, {1, 2}, {TRUE}, MaxOps)

SharedNext ==
    \/ Construct
    \/ \E p \in AllThreads, n \in SharedNames, d \in DirectData : DirectCall(p, "put", n, d)
    \/ \E p \in AllThreads, n \in SharedNames : DirectCall(p, "get", n, NoData)
    \/ \E p \in AllThreads, n \in SharedNames : DirectCall(p, "delete", n, NoData)
    \/ \E p \in AllThreads, d \in SharedDirs : DirectCall(p, "list", d, NoData)
    \/ CallTest
    \/ ConnSteps
    \/ PutSteps
    \/ GetSteps
    \/ \E p \in AllThreads : ListAttr(p)
    \/ \E p \in AllThreads : DelStat(p)
    \/ \E p \in AllThreads : DelRemove(p)
    \/ \E p \in AllThreads : TestListdir(p)
    \/ \E p \in AllThreads : DirectReturn(p)

SharedSpec == SharedInit /\ [][SharedNext]_vars

\* one caller uploading files of zero to three bytes, with the ledger in
\* memory or on PostgreSQL
SizedRaws == { <<>>, <<1>>, <<1, 200>>, <<1, 2, 200>> }

SizesInit == InitWith(ServerEnvs, {1}, BOOLEAN, MaxOps)

SizesNext ==
    \/ Construct
    \/ UploadsWith({1}, {<<"f">>}, SizedRaws)
    \/ DownloadsBy({1})
    \/ ConnSteps
    \/ PutSteps
    \/ GetSteps
    \/ HandlerSteps

SizesSpec == SizesInit /\ [][SizesNext]_vars

\* two callers uploading one file name and asking for every transfer, with
\* the ledger in memory or on PostgreSQL
OwnerRaws == { <<1, 2, 200>> }

OwnerInit == InitWith(ServerEnvs, {1}, BOOLEAN, MaxOps)

OwnerNext ==
    \/ Construct
    \/ UploadsWith(Users, {<<"f">>}, OwnerRaws)
    \/ DownloadsBy(Users)
    \/ ConnSteps
    \/ PutSteps
    \/ GetSteps
    \/ HandlerSteps

OwnerSpec == OwnerInit /\ [][OwnerNext]_vars

\* two request threads inside the in-memory Database at the same time
IdsInit ==
    /\ env \in ServerEnvs
    /\ hostKnown = TRUE
    /\ mgr = NotConstructed
    /\ pc = [p \in {1} |-> "idle"]
    /\ loc = [p \in {1} |-> IdleLoc]
    /\ sessions = <<>>
    /\ tmpFiles = {}
    /\ remoteDir = FALSE
    /\ remoteFiles = <<>>
    /\ now = 0
    /\ db = NewDb(TRUE)
    /\ logged = <<>>
    /\ opsLeft = 0
    /\ crypto = NoCrypto
    /\ mem = [NewMem EXCEPT !.left = MaxOps + 1]

IdsNext ==
    \/ \E p \in AllThreads, op \in IdCallers : MemCall(p, op)
    \/ \E p \in AllThreads : IdLoad(p)
    \/ \E p \in AllThreads : IdStore(p)
    \/ \E p \in AllThreads : IdReturn(p)
    \/ \E p \in AllThreads : MemInsert(p)

IdsSpec == IdsInit /\ [][IdsNext]_vars

\* the encryption module: one AESCipher, constructed under every kind of
\* password and ENCRYPTION_KEY, encrypting, wrapping, decrypting, unwrapping
Passwords == {NoVal, <<>>, <<"p", "w">>}
KeyTexts ==
    { KeyUnset, KeyEmpty, KeyBadPad,
      B64(2, 32, 20),     \* the base64 text of a Fernet key
      B64(1, 32, 21),     \* a Fernet key as Fernet.generate_key() gives it
      B64(1, 3, 22) }     \* four base64 characters
\* ENCRYPTION_SALT is left unset
Salts == {NoVal}

\* payloads: empty, and bytes that are no text followed by a quote
Payloads == {<<>>, <<255, 39>>}
\* buffers made by hand: two bytes; a length of 100 before '{}'; a length of
\* 3 before 'o()'; a length of 2 before an open string; a length of 1 before
\* a byte that is no text
Crafted ==
    { <<0, 0>>,
      ToBytes4(100) \o Utf8Encode(<<"{", "}">>),
      ToBytes4(3) \o Utf8Encode(<<"o", "(", ")">>),
      ToBytes4(2) \o Utf8Encode(<<"{", "'">>),
      ToBytes4(1) \o <<255>> }
WrapFilenames == {<<"f">>, <<"'">>, <<"'", "\"", "\\">>}
Metadatas ==
    { PyDict(<<>>),
      PyDict(<<Item(<<"k">>, PyStr(<<"v", "'">>))>>),
      PyDict(<<Item(<<"k">>, PyDict(<<Item(<<"n">>, PyInt(10))>>)),
               Item(<<"z">>, PyNone)>>) }
HexDigits == {"0"}
ReceivedTokens ==
    { Plain(<<1>>), FernetEncrypt(ForeignKey, 0, Plain(<<255, 39>>)) }

CryptoInit ==
    /\ env \in ServerEnvs
    /\ hostKnown = TRUE
    /\ mgr = NotConstructed
    /\ pc = [p \in {1} |-> "idle"]
    /\ loc = [p \in {1} |-> IdleLoc]
    /\ sessions = <<>>
    /\ tmpFiles = {}
    /\ remoteDir = FALSE
    /\ remoteFiles = <<>>
    /\ now = 0
    /\ db = NewDb(TRUE)
    /\ logged = <<>>
    /\ opsLeft = 0
    /\ \E pw \in Passwords, k \in KeyTexts, salt \in Salts :
          crypto = [NoCrypto EXCEPT !.password = pw, !.key_b64 = k, !.salt = salt,
                                    !.left = MaxTokens]
    /\ mem = NewMem

CryptoNext ==
    \/ EngineConstruct
    \/ \E data \in Payloads \cup Crafted : Encrypt(data)
    \/ \E data \in Payloads, f \in WrapFilenames, m \in Metadatas, h \in HexDigits :
          Wrap(data, f, m, h)
    \/ \E c \in ReceivedTokens : Receive(c)
    \/ \E k \in {"flip", "cut"} :
          Damage(IF k = "flip" THEN Altered(crypto.token) ELSE Truncated(crypto.token))
    \/ Decrypt
    \/ Unwrap

CryptoSpec == CryptoInit /\ [][CryptoNext]_vars

\* ================================================================ claims
AtRet(p) == pc[p] = "ret"
NameOps == {"put", "get", "delete"}
FlagOn(v) == v \in {S_true, S_True}
Absent(v) == v = NoVal \/ Len(v) = 0
AnyCredentialAbsent ==
    \/ Absent(env["SFTP_HOST"])
    \/ Absent(env["SFTP_USERNAME"])
    \/ Absent(env["SFTP_PASSWORD"])

\* C1 (as claimed): when a transport operation returns, on success or on
\* failure at any step, no SSH connection and no SFTP channel that the
\* operation opened is still open.
C1_AllClosedOnReturn ==
    \A p \in DOMAIN pc :
        AtRet(p) =>
            \A s \in loc[p].made :
                /\ sessions[s].ssh \notin {"authenticating", "open"}
                /\ sessions[s].sftp # "open"

\* a name that holds a directory separator (so also every absolute path and
\* every name with a '..' segment beside another component) or starts with '.'
UnsafeName(n) == (\E i \in DOMAIN n : n[i] = "/") \/ StartsWith(n, ".")

BadFinalComponent(n) ==
    \/ n = <<>>
    \/ n[Len(n)] = "/"
    \/ \E i \in 1..Len(n) :
        /\ n[i] = "."
        /\ (i = 1 \/ n[i - 1] = "/")
        /\ \A j \in i..Len(n) : n[j] # "/"

\* n is what follows the last '/' of arg
IsFinalComponent(n, arg) ==
    /\ \A i \in DOMAIN n : n[i] # "/"
    /\ \E k \in 0..Len(arg) :
        /\ SubSeq(arg, k + 1, Len(arg)) = n
        /\ (k = 0 \/ arg[k] = "/")

C3_DisabledModeRejectsAll ==
    (mgr.status = "ok" /\ FlagOn(env["SFTP_DEV_MODE"])) =>
        /\ sessions = <<>>
        /\ remoteFiles = <<>>
        /\ ~remoteDir
        /\ tmpFiles = {}
        /\ \A p \in DOMAIN pc :
            /\ pc[p] \in {"idle", "ret"}
            /\ AtRet(p) =>
                /\ loc[p].res = Fail(DevModeMsg)
                /\ loc[p].made = {}
                /\ loc[p].io = 0

\* C3 witness: the flag is on with all credentials present, and the last
\* request of the run, a put of the valid name 'f', has been turned away.
C3_Witness ==
    /\ FlagOn(env["SFTP_DEV_MODE"])
    /\ ~AnyCredentialAbsent
    /\ opsLeft = 0
    /\ AtRet(1)
    /\ loc[1].op = "put"
    /\ loc[1].arg = <<"f">>
    /\ loc[1].res = Fail(DevModeMsg)

\* C4: once the constructor has run: with a credential absent and the flag
\* off it has raised and no operation ever runs; with a credential absent and
\* the flag on the manager is in development mode, creates no session and
\* every operation fails; and in every configuration an operation that
\* reports success made remote calls on a session of its own whose SFTP
\* channel was opened.
C4_MisconfigurationFailsClosed ==
    mgr.status # "none" =>
        /\ (AnyCredentialAbsent /\ ~FlagOn(env["SFTP_DEV_MODE"])) =>
            /\ mgr.status = "raised"
            /\ sessions = <<>>
            /\ \A p \in DOMAIN pc : pc[p] = "idle" /\ loc[p] = IdleLoc
        /\ (AnyCredentialAbsent /\ FlagOn(env["SFTP_DEV_MODE"])) =>
            /\ mgr.status = "ok"
            /\ mgr.dev_mode
            /\ sessions = <<>>
            /\ \A p \in DOMAIN pc : loc[p].io = 0 /\ ~loc[p].res.success
        /\ \A p \in DOMAIN pc :
            (AtRet(p) /\ loc[p].res.success) =>
                /\ loc[p].io > 0
                /\ loc[p].made # {}
                /\ \A s \in loc[p].made : sessions[s].sftp = "closed"

\* C4 witness: the password is absent, the flag is on, and a delete of 'f'
\* has been turned away by the manager in development mode.
C4_Witness ==
    /\ Absent(env["SFTP_PASSWORD"])
    /\ FlagOn(env["SFTP_DEV_MODE"])
    /\ mgr.status = "ok"
    /\ AtRet(1)
    /\ loc[1].op = "delete"
    /\ loc[1].arg = <<"f">>
    /\ ~loc[1].res.success

ConnectFailures == {"connect failed", "unknown host key"}

\* C5 (as claimed): with the server's host key unknown and the override
\* unset or different from the string 'true', no session passes host-key
\* verification and no operation succeeds.
C5_RejectsUnlessExactlyTrue ==
    (~hostKnown /\ env["SFTP_ACCEPT_UNKNOWN_HOSTS"] # S_true) =>
        /\ \A s \in DOMAIN sessions : sessions[s].ssh \in {"new", "failed"}
        /\ \A p \in DOMAIN pc : AtRet(p) => ~loc[p].res.success

\* C5 (amended): with the server's host key unknown: when the override is
\* unset or is not 'true' ignoring letter case, no session passes host-key
\* verification, no operation makes a remote call or succeeds, and an
\* operation that tried to connect returns a connection failure; when the
\* override is 'true' in any letter case, no operation fails for the unknown
\* host key.
C5_UnknownHostPolicy ==
    ~hostKnown =>
        IF FlagOn(env["SFTP_ACCEPT_UNKNOWN_HOSTS"])
        THEN \A p \in DOMAIN pc :
                /\ loc[p].exc # "unknown host key"
                /\ loc[p].res.error # "unknown host key"
        ELSE /\ \A s \in DOMAIN sessions :
                /\ sessions[s].ssh \in {"new", "failed"}
                /\ sessions[s].sftp = "none"
             /\ remoteFiles = <<>>
             /\ \A p \in DOMAIN pc :
                /\ loc[p].io = 0
                /\ AtRet(p) =>
                    /\ ~loc[p].res.success
                    /\ loc[p].made # {} => loc[p].res.error \in ConnectFailures

\* C5 witness: host key unknown, override 'false': a test_connection has
\* returned the unknown-host-key connection failure.
C5_Witness ==
    /\ ~hostKnown
    /\ env["SFTP_ACCEPT_UNKNOWN_HOSTS"] = S_false
    /\ AtRet(1)
    /\ loc[1].op = "test"
    /\ loc[1].res = Fail("unknown host key")

\* C6 (as claimed): an operation that opened a session opened exactly one,
\* made its remote calls only while the channel was open, and has left the
\* session Closed when it returns.
C6_SessionLifecycle ==
    \A p \in DOMAIN pc :
        (AtRet(p) /\ loc[p].made # {}) =>
            /\ Cardinality(loc[p].made) = 1
            /\ \A s \in loc[p].made :
                /\ sessions[s].owner = p
                /\ ~sessions[s].misuse
                /\ sessions[s].ssh \in {"closed", "failed"}
                /\ sessions[s].sftp \in {"none", "closed"}
                /\ loc[p].io > 0 => sessions[s].sftp = "closed"

\* an upload whose put raised after _get_sftp_connection had returned
PutFailedAfterConnect(p) ==
    /\ loc[p].hk = "upload"
    /\ loc[p].sftp # 0
    /\ loc[p].exc # ""
    /\ pc[p] \in {"ret", "resp"}

\* C7: when a step of put after connecting has raised, the session is closed,
\* put returns a failure, the handler answers 500 and no transfer record of
\* this request is in the ledger; the ledger holds exactly the logged uploads.
C7_PutAllOrNothing ==
    /\ DOMAIN logged = DOMAIN db.transfers
    /\ \A p \in DOMAIN pc :
        PutFailedAfterConnect(p) =>
            /\ sessions[loc[p].ssh].ssh = "closed"
            /\ sessions[loc[p].sftp].sftp = "closed"
            /\ ~loc[p].res.success
            /\ \A t \in DOMAIN logged : logged[t].req # loc[p].req
            /\ pc[p] = "resp" =>
                /\ loc[p].resp.status = 500
                /\ loc[p].resp.transfer_id = 0

\* C7 witness: chmod raised after the object was written: the object is on
\* the server, the handler answered 500 and the ledger is empty.
C7_Witness ==
    /\ pc[1] = "resp"
    /\ loc[1].hk = "upload"
    /\ loc[1].exc = "chmod failed"
    /\ loc[1].resp.status = 500
    /\ Exists(RemoteFilePath(mgr, loc[1].name))
    /\ DOMAIN db.transfers = {}

\* C8 (as claimed): when put or get returns, no staging file it created is
\* left on the local disk (a staging file carries the number of the session
\* of the operation that created it).
C8_StagingRemovedOnReturn ==
    \A p \in DOMAIN pc :
        AtRet(p) => \A f \in loc[p].made : f \notin tmpFiles

\* C9 (as claimed): a download that answers 200 for a transfer returns the
\* bytes of the upload that logged it, with their length as size, and the
\* record holds that length as original_size.
C9_DownloadReturnsUpload ==
    \A p \in DOMAIN pc :
        (pc[p] = "resp" /\ loc[p].hk = "download" /\ loc[p].resp.status = 200) =>
            LET t == loc[p].tid IN
            /\ loc[p].resp.data = Plain(logged[t].raw)
            /\ loc[p].resp.size = Len(logged[t].raw)
            /\ db.transfers[t].original_size = Len(logged[t].raw)

\* C10 (as claimed): two uploads that both succeeded and were logged, and
\* that differ in uploader, in instant or in original filename, are stored
\* under different remote object names.
C10_DistinctRemoteNames ==
    \A t1, t2 \in DOMAIN logged :
        (\/ logged[t1].user # logged[t2].user
         \/ logged[t1].at # logged[t2].at
         \/ logged[t1].filename # logged[t2].filename) =>
            logged[t1].stored # logged[t2].stored

\* an upload whose remote put succeeded
PutSucceeded(p) == loc[p].hk = "upload" /\ loc[p].res.success

\* the ledger holds a transfer record written by the request of thread p
RecordedBy(p) == \E t \in DOMAIN logged : logged[t].req = loc[p].req

\* the answer tells the caller of a ledger failure: it carries an error text
\* or something other than the plain success message
CarriesWarning(resp) == resp.error # "" \/ resp.message # UploadedMsg

\* C11 (as claimed): when the ledger failed to create the transfer record
\* after a successful remote put, the object stays on the server, the upload
\* is not answered as a failure, and the answer carries a warning of the
\* ledger failure instead of being a plain success.
C11_LedgerFailureIsWarned ==
    \A p \in DOMAIN pc :
        (pc[p] = "resp" /\ PutSucceeded(p) /\ ~RecordedBy(p)) =>
            /\ Exists(RemoteFilePath(mgr, loc[p].name))
            /\ loc[p].resp.status = 200
            /\ CarriesWarning(loc[p].resp)

\* C12: the step in which the upload handler answers a failed put leaves the
\* ledger as it was (no transfer record, no activity entry) and answers 500
\* with an error; and no answered failed put has a transfer record.
C12_FailedPutLeavesLedger ==
    [][\A p \in DOMAIN pc :
        (/\ pc[p] = "ret"
         /\ loc[p].hk = "upload"
         /\ ~loc[p].res.success
         /\ pc'[p] # "ret") =>
            /\ db' = db
            /\ logged' = logged
            /\ pc'[p] = "resp"
            /\ loc'[p].resp.status = 500
            /\ loc'[p].resp.error # ""
            /\ loc'[p].resp.transfer_id = 0
            /\ ~RecordedBy(p)]_vars

\* C12 witness: on PostgreSQL, after one logged upload, a second upload whose
\* put raised has been answered 500 and the ledger still holds one transfer
\* and one activity.
C12_Witness ==
    /\ ~db.memory_mode
    /\ pc[1] = "resp"
    /\ loc[1].hk = "upload"
    /\ loc[1].exc = "put failed"
    /\ loc[1].resp.status = 500
    /\ Cardinality(DOMAIN db.transfers) = 1
    /\ Len(db.activities) = 1

\* a download that the handler has answered after calling the transport
DownloadAnswered(p) ==
    pc[p] = "resp" /\ loc[p].hk = "download" /\ loc[p].op = "get"

DownloadErrors == {"Decryption failed", "Decompression failed"}

\* C13: an answered download that failed reports the stage that failed, and
\* only the stages up to it ran: a failed get answers 'Download failed: '
\* followed by the transport's error after calling get only; a token that
\* does not decrypt answers 'Decryption failed' after get and decrypt; bytes
\* that do not decompress answer 'Decompression failed' after all three; the
\* three answers differ from each other; and an answer of 200 ran all three.
C13_DownloadFailureStages ==
    \A p \in DOMAIN pc :
        DownloadAnswered(p) =>
            LET res == loc[p].res
                resp == loc[p].resp
            IN
            /\ resp.status \in {200, 500}
            /\ ~res.success =>
                /\ resp.status = 500
                /\ resp.error = "Download failed: " \o res.error
                /\ resp.error \notin DownloadErrors
                /\ resp.stages = <<"get">>
            /\ (res.success /\ ~CanDecrypt(EngineKey, res.data)) =>
                /\ resp.status = 500
                /\ resp.error = "Decryption failed"
                /\ resp.stages = <<"get", "decrypt">>
            /\ (res.success /\ CanDecrypt(EngineKey, res.data)
                    /\ ~CanDecompress(Peel(res.data))) =>
                /\ resp.status = 500
                /\ resp.error = "Decompression failed"
                /\ resp.stages = <<"get", "decrypt", "decompress">>
            /\ resp.status = 200 =>
                /\ res.success
                /\ resp.error = ""
                /\ resp.stages = <<"get", "decrypt", "decompress">>

\* C13 witnesses: a download answered for each failing stage
C13_WitnessDecrypt ==
    /\ DownloadAnswered(1)
    /\ loc[1].res.success
    /\ loc[1].res.data = FernetEncrypt(ForeignKey, 0, GzipCompress(Plain(<<1>>)))
    /\ loc[1].resp.error = "Decryption failed"

C13_WitnessDecompress ==
    /\ DownloadAnswered(1)
    /\ loc[1].res.success
    /\ loc[1].resp.error = "Decompression failed"

C13_WitnessTransport ==
    /\ DownloadAnswered(1)
    /\ loc[1].res.error = "get failed"
    /\ loc[1].resp.status = 500

\* a get that has returned after trying to connect
GetReturned(p) == AtRet(p) /\ loc[p].op = "get" /\ loc[p].made # {}

\* the get never had a connection: _get_sftp_connection raised
ConnectionFailed(p) == loc[p].sftp = 0

\* C14: a get that connected and found no object under the name returns the
\* not-found failure after the stat call alone; a get whose connection failed
\* (unreachable host, unknown host key, rejected authentication, channel not
\* opened) returns a connection error, which is never the not-found failure;
\* and not-found is returned only for a name that is not on the server.
C14_NotFoundIsDistinct ==
    \A p \in DOMAIN pc :
        GetReturned(p) =>
            LET path == RemoteFilePath(mgr, loc[p].name)
                res == loc[p].res
            IN
            /\ ~res.success => res.error # ""
            /\ ConnectionFailed(p) =>
                /\ ~res.success
                /\ res.error \in ConnErrors
                /\ res.error # NotFoundMsg
            /\ (~ConnectionFailed(p) /\ ~Exists(path) /\ loc[p].exc = "") =>
                /\ res = Fail(NotFoundMsg)
                /\ loc[p].io = 1
            /\ res.error = NotFoundMsg =>
                /\ ~res.success
                /\ ~ConnectionFailed(p)
                /\ ~Exists(path)

\* C14 witness: a get of 'f' that connected to a server whose base directory
\* exists has returned not-found.
C14_Witness ==
    /\ GetReturned(1)
    /\ remoteDir
    /\ loc[1].arg = <<"f">>
    /\ ~ConnectionFailed(1)
    /\ loc[1].res = Fail(NotFoundMsg)

\* the cipher has decrypted the token at hand
Decrypted == crypto.out.op = "decrypt"
\* the token at hand is as the cipher made it
OwnToken == crypto.made.by \in {"encrypt", "wrap"} /\ ~crypto.made.altered

C15_WitnessEmpty ==
    /\ Decrypted
    /\ crypto.made.by = "encrypt"
    /\ crypto.made.p = <<>>
    /\ crypto.out.success

C16_WitnessForeign ==
    /\ Decrypted
    /\ crypto.token = FernetEncrypt(ForeignKey, 0, Plain(<<255, 39>>))
    /\ crypto.out.error = "Decryption failed"


\* the last call was decrypt_with_metadata
Unwrapped == crypto.out.op = "unwrap"
\* the token at hand is an envelope this cipher wrapped, unchanged since
OwnEnvelope == crypto.made.by = "wrap" /\ ~crypto.made.altered

KeyFilename == <<"f", "i", "l", "e", "n", "a", "m", "e">>
KeyMetadata == <<"m", "e", "t", "a", "d", "a", "t", "a">>
KeySize == <<"s", "i", "z", "e">>

\* C17: decrypt_with_metadata of what encrypt_with_metadata(p, f, m) returned,
\* under the same key, succeeds with data p, metadata['filename'] f and
\* metadata['metadata'] m; the whole metadata is the one encrypt_with_metadata
\* reported, and its size is len(p), which is also the decrypted_size.
C17_UnwrapInvertsWrap ==
    (Unwrapped /\ OwnEnvelope) =>
        /\ crypto.out.success
        /\ crypto.out.data = crypto.made.p
        /\ Lookup(crypto.out.meta, KeyFilename) = PyStr(crypto.made.f)
        /\ Lookup(crypto.out.meta, KeyMetadata) = crypto.made.m
        /\ Lookup(crypto.out.meta, KeySize) = PyInt(Len(crypto.made.p))
        /\ crypto.out.meta = crypto.made.n
        /\ crypto.out.size = Len(crypto.made.p)

\* an envelope was unwrapped whose payload is no text, whose filename holds
\* both quotes and a backslash, and whose metadata holds a nested map
C17_Witness ==
    /\ Unwrapped
    /\ OwnEnvelope
    /\ crypto.out.success
    /\ crypto.made.p = <<255, 39>>
    /\ crypto.made.f = <<"'", "\"", "\\">>
    /\ \E i \in DOMAIN crypto.made.m.kids : crypto.made.m.kids[i].v.t = "dict"

\* an envelope with an empty payload and empty metadata was unwrapped
C17_WitnessEmpty ==
    /\ Unwrapped
    /\ OwnEnvelope
    /\ crypto.out.success
    /\ crypto.made.p = <<>>
    /\ crypto.made.m = PyDict(<<>>)


\* the buffer decrypt_with_metadata gets from cipher.decrypt for the token at hand
DecryptedCombined == AESDecrypt(crypto.engine.key, crypto.token).data
\* the metadata length its first four bytes declare
DeclaredLength == FromBytes(Slice(DecryptedCombined, 0, 4))

\* C18: decrypt_with_metadata succeeds only on a buffer of at least four bytes
\* that holds, after them, at least as many bytes as they declare: a declared
\* metadata length beyond the buffer is a failure, never a success with a
\* shorter metadata block.
C18_UnwrapRejectsShortBuffer ==
    (Unwrapped /\ crypto.out.success) =>
        /\ Len(DecryptedCombined) >= 4
        /\ DeclaredLength <= Len(DecryptedCombined) - 4

\* the bytes decrypt_with_metadata takes for the metadata
MetadataBlock == Slice(DecryptedCombined, 4, 4 + DeclaredLength)

\* what does hold: decrypt_with_metadata succeeds only on a buffer of at least
\* four bytes whose metadata block is text that evaluates
C18_ShortOrUnparsedFails ==
    (Unwrapped /\ crypto.out.success) =>
        /\ Len(DecryptedCombined) >= 4
        /\ CanUtf8Decode(MetadataBlock)
        /\ Eval(Utf8Decode(MetadataBlock)).ok


\* C19: decrypt_with_metadata has no effect but its result: whatever the
\* metadata block holds, reading it calls nothing.
C19_UnwrapEvaluatesNothing == crypto.effects = {}

\* the metadata block of the unwrapped buffer was a call, and unwrap made it
C19_CallReached ==
    /\ Unwrapped
    /\ MetadataBlock = Utf8Encode(<<"o", "(", ")">>)
    /\ crypto.effects = {<<"o">>}

\* AESCipher(password) has run, to its end or to the exception it raised
Constructed == crypto.engine.status # "none"

\* C20: after AESCipher(password) there is one active key: the key derived
\* from the password when a password is given; else the bytes ENCRYPTION_KEY
\* decodes to when ENCRYPTION_KEY is set; a generated key only when neither is.
C20_OneKeyByPrecedence ==
    Constructed =>
        /\ crypto.engine.status = "ok"
        /\ IF Truthy(crypto.password)
           THEN /\ crypto.engine.source = "password"
                /\ crypto.engine.key = DerivedKey(crypto.password, DefaultSalt)
           ELSE IF KeyTruthy(crypto.key_b64)
                THEN /\ crypto.engine.source = "configured"
                     /\ crypto.engine.key = B64Decode(crypto.key_b64)
                ELSE crypto.engine.source = "random"

\* what does hold: a password comes first, and with neither a password nor
\* ENCRYPTION_KEY the key is a generated one
C20_PasswordFirstRandomLast ==
    Constructed =>
        IF Truthy(crypto.password)
        THEN crypto.engine = Engine("password", DerivedKey(crypto.password, DefaultSalt))
        ELSE ~KeyTruthy(crypto.key_b64) => crypto.engine = Engine("random", GeneratedKey)

\* ENCRYPTION_KEY was set to text that is no base64 and a generated key is in use
C20_SilentRandomKey ==
    /\ Constructed
    /\ ~Truthy(crypto.password)
    /\ crypto.key_b64 = KeyBadPad
    /\ crypto.engine = Engine("random", GeneratedKey)

\* ENCRYPTION_KEY was set to a Fernet key and the constructor raised
C20_FernetKeyRejected ==
    /\ Constructed
    /\ ~Truthy(crypto.password)
    /\ FernetKeyOk(crypto.key_b64)
    /\ crypto.engine.status = "raised"


\* C21: list_files turns away, with a failure result and before any SSH
\* session is created, every directory that holds a separator, a '..'
\* segment, an absolute path or a leading '.', as put, get and delete do for
\* names; and when a list call returns, every session it made is closed.
C21_ListValidatesAndCloses ==
    \A p \in DOMAIN pc :
        loc[p].op = "list" =>
            /\ (Truthy(loc[p].arg) /\ UnsafeName(loc[p].arg)) =>
                   /\ AtRet(p)
                   /\ ~loc[p].res.success
                   /\ loc[p].made = {}
            /\ AtRet(p) =>
                   \A s \in loc[p].made :
                       /\ sessions[s].ssh \notin {"authenticating", "open"}
                       /\ sessions[s].sftp # "open"

\* the validation part of the claim alone
C21_ListRejectsUnsafeDir ==
    \A p \in DOMAIN pc :
        (loc[p].op = "list" /\ Truthy(loc[p].arg) /\ UnsafeName(loc[p].arg)) =>
            /\ AtRet(p)
            /\ ~loc[p].res.success
            /\ loc[p].made = {}

\* what does hold: a directory whose normal form holds '..' or starts with
\* '/' is turned away before any session is created
C21_ListRejectsNormalizedEscape ==
    \A p \in DOMAIN pc :
        (loc[p].op = "list" /\ DirRejected(loc[p].arg)) =>
            /\ AtRet(p)
            /\ (~mgr.dev_mode => loc[p].res = Fail(InvalidDirMsg))
            /\ loc[p].made = {}

\* list_files('.d') made a session and listed the directory
C21_HiddenDirListed ==
    /\ AtRet(1)
    /\ loc[1].op = "list"
    /\ loc[1].arg = <<".", "d">>
    /\ loc[1].made # {}
    /\ loc[1].io > 0


\* an upload request was answered
UploadAnswered(p) == pc[p] = "resp" /\ loc[p].hk = "upload"

\* C22: the compression_ratio a successful upload reports is 0 for an empty
\* file and otherwise the hundredth nearest to (1 - compressed/original) * 100;
\* computing it never raises, so an upload whose put succeeded is never
\* answered with the handler's exception answer.
C22_CompressionRatio ==
    \A p \in DOMAIN pc :
        (UploadAnswered(p) /\ loc[p].res.success) =>
            LET r == loc[p].resp
                original == Len(loc[p].raw)
                delta == r.compression_ratio * original
                             - 10000 * (original - r.compressed_size)
            IN /\ r.status = 200
               /\ r.size = original
               /\ r.compressed_size = CompressedSize(loc[p].raw)
               /\ original = 0 => r.compression_ratio = 0
               /\ original > 0 => (2 * delta <= original /\ -2 * delta <= original)

\* an empty file was uploaded and answered with ratio 0
C22_Witness ==
    /\ UploadAnswered(1)
    /\ loc[1].res.success
    /\ loc[1].raw = <<>>
    /\ loc[1].resp.status = 200
    /\ loc[1].resp.compressed_size = 20
    /\ loc[1].resp.compression_ratio = 0

\* a file of three bytes was uploaded and answered with ratio -666.67
C22_WitnessRounded ==
    /\ UploadAnswered(1)
    /\ loc[1].res.success
    /\ Len(loc[1].raw) = 3
    /\ loc[1].resp.compressed_size = 23
    /\ loc[1].resp.compression_ratio = -66667


\* C28: for every upload whose put succeeded with the ledger on PostgreSQL,
\* the compression ratio the handler computed fits the compression_ratio
\* column of the transfers table, NUMERIC(5,2).
C28_RatioFitsColumn ==
    \A p \in DOMAIN pc :
        (UploadAnswered(p) /\ loc[p].res.success /\ ~db.memory_mode) =>
            FitsNumeric(loc[p].resp.compression_ratio)

\* a file of one byte was stored by the transport and the ledger on
\* PostgreSQL has no record of it: its ratio is -2000.00
C28_RecordRefused ==
    /\ UploadAnswered(1)
    /\ loc[1].res.success
    /\ ~db.memory_mode
    /\ loc[1].raw = <<1>>
    /\ loc[1].resp.compression_ratio = -200000
    /\ loc[1].resp.transfer_id = 0
    /\ db.transfers = <<>>

\* on PostgreSQL no upload of a file of one or two bytes is ever recorded
C28_SmallFilesNeverRecorded ==
    ~db.memory_mode =>
        \A t \in DOMAIN db.transfers : db.transfers[t].original_size \notin {1, 2}

\* a file of three bytes is recorded on PostgreSQL with ratio -666.67
C28_ThreeBytesRecorded ==
    /\ ~db.memory_mode
    /\ \E t \in DOMAIN db.transfers :
          /\ db.transfers[t].original_size = 3
          /\ db.transfers[t].compression_ratio = -66667


\* the sessions thread p holds in its locals
Held(p) == {loc[p].conn, loc[p].ssh, loc[p].sftp} \ {0}
\* the thread that takes the step
Stepping(p) == pc'[p] # pc[p] \/ loc'[p] # loc[p]

\* every session a thread holds or made is one it created itself, and no
\* session was made by two operations
SessionsAreOwn ==
    /\ \A p \in DOMAIN pc :
          /\ Held(p) \subseteq loc[p].made
          /\ \A s \in loc[p].made : s \in DOMAIN sessions /\ sessions[s].owner = p
    /\ \A p, q \in DOMAIN pc : p # q => loc[p].made \cap loc[q].made = {}

\* a session changes only in a step of the thread that created it, and the
\* constructed manager never changes
OnlyOwnerActs ==
    /\ \A s \in DOMAIN sessions :
          sessions'[s] # sessions[s] =>
              /\ Stepping(sessions[s].owner)
              /\ s \in loc[sessions[s].owner].made
    /\ mgr.status = "ok" => mgr' = mgr

\* C23: with two threads inside the transport operations of the one
\* sftp_manager in any interleaving, each session is created and used only by
\* the operation that opened it, and no operation changes a field of the
\* manager.
C23_NoSharedTransportState == [](SessionsAreOwn) /\ [][OnlyOwnerActs]_vars

\* both threads are past open_sftp at once, each on a session of its own
C23_Witness ==
    /\ loc[1].sftp # 0
    /\ loc[2].sftp # 0
    /\ loc[1].sftp # loc[2].sftp
    /\ sessions[loc[1].sftp].sftp = "open"
    /\ sessions[loc[2].sftp].sftp = "open"
    /\ pc[1] \notin {"idle", "ret"}
    /\ pc[2] \notin {"idle", "ret"}


TransportOps == {"put", "get", "list", "delete", "test"}

\* C24: whatever fails in the connection or in a remote step of put, get,
\* list, delete or test_connection, the operation comes back with a result:
\* a failure result that carries the text of the exception when one was
\* raised, and success only when none was.
C24_FailuresAreResults ==
    \A p \in DOMAIN pc :
        (AtRet(p) /\ loc[p].op \in TransportOps) =>
            LET l == loc[p] IN
            /\ l.res # NoResult
            /\ l.exc # "" => l.res = Fail(l.exc)
            /\ l.res.success => l.exc = ""

\* put came back with the failure of its last remote step, chmod
C24_Witness ==
    /\ AtRet(1)
    /\ loc[1].op = "put"
    /\ loc[1].exc = "chmod failed"
    /\ loc[1].res = Fail("chmod failed")

\* test_connection came back with the failure of the connection
C24_WitnessConnection ==
    /\ AtRet(1)
    /\ loc[1].op = "test"
    /\ loc[1].res = Fail("authentication failed")

\* every operation has come back with a raised exception as its result
C24_WitnessList == AtRet(1) /\ loc[1].op = "list" /\ loc[1].exc # ""
C24_WitnessDelete == AtRet(1) /\ loc[1].op = "delete" /\ loc[1].exc # ""
C24_WitnessGet == AtRet(1) /\ loc[1].op = "get" /\ loc[1].exc # ""


\* the steps of put, get and delete that pass remote_file_path to the server
PathSteps == {"put_put", "put_chmod", "get_stat", "get_get", "del_stat", "del_remove"}

\* path is the remote base path, a '/', and one component that is non-empty,
\* holds no '/' and does not start with '.'
InsideBase(path) ==
    LET base == mgr.remote_path
        n == SubSeq(path, Len(base) + 2, Len(path))
    IN /\ Len(path) > Len(base) + 1
       /\ SubSeq(path, 1, Len(base) + 1) = base \o <<"/">>
       /\ \A i \in DOMAIN n : n[i] # "/"
       /\ ~StartsWith(n, ".")

\* C25: whatever name put, get or delete is given, the path they hand to
\* sftp.put, chmod, stat, get and remove is the remote base path, '/', and one
\* safe component; and every object on the server lies directly in the base
\* directory.
C25_PathsStayInBase ==
    /\ \A p \in DOMAIN pc :
          pc[p] \in PathSteps => InsideBase(RemoteFilePath(mgr, loc[p].name))
    /\ \A path \in DOMAIN remoteFiles : InsideBase(path)

\* put was given '../f' and is about to hand <base>/f to sftp.put
C25_Witness ==
    /\ pc[1] = "put_put"
    /\ loc[1].arg = <<".", ".", "/", "f">>
    /\ RemoteFilePath(mgr, loc[1].name) = DefaultRemotePath \o <<"/", "f">>

\* delete was given '/f' and is about to hand <base>/f to sftp.remove
C25_WitnessDelete ==
    /\ pc[1] = "del_remove"
    /\ loc[1].arg = <<"/", "f">>
    /\ RemoteFilePath(mgr, loc[1].name) = DefaultRemotePath \o <<"/", "f">>


\* C26: for every upload answered as successful, the remote_filename of the
\* answer, and of the transfer record when one was written, is the
\* remote_filename of the transport's result, the name the object is stored
\* under.
C26_RecordedNameIsStoredName ==
    \A p \in DOMAIN pc :
        (UploadAnswered(p) /\ loc[p].resp.status = 200) =>
            /\ loc[p].resp.remote_filename = loc[p].res.remote_filename
            /\ loc[p].resp.transfer_id # 0 =>
                   db.transfers[loc[p].resp.transfer_id].remote_filename
                       = loc[p].res.remote_filename

\* the file 'd/f' was uploaded: the record and the answer name
\* 'a_<time>_d/f.enc', the object is stored as 'f.enc'
C26_NamesDiffer ==
    /\ UploadAnswered(1)
    /\ loc[1].resp.status = 200
    /\ loc[1].filename = <<"d", "/", "f">>
    /\ loc[1].res.remote_filename = <<"f", ".", "e", "n", "c">>
    /\ loc[1].resp.remote_filename = RemoteFilename(<<"a">>, loc[1].at, <<"d", "/", "f">>)
    /\ loc[1].resp.transfer_id # 0
    /\ db.transfers[loc[1].resp.transfer_id].remote_filename = loc[1].resp.remote_filename

\* what does hold: for a filename without '/', the names agree
C26_PlainNamesAgree ==
    \A p \in DOMAIN pc :
        (UploadAnswered(p) /\ loc[p].resp.status = 200
            /\ \A i \in DOMAIN loc[p].filename : loc[p].filename[i] # "/") =>
            /\ loc[p].resp.remote_filename = loc[p].res.remote_filename
            /\ loc[p].resp.transfer_id # 0 =>
                   db.transfers[loc[p].resp.transfer_id].remote_filename
                       = loc[p].res.remote_filename


\* thread p handles a download request
Downloading(p) == loc[p].hk = "download"
\* the ledger holds a record with this id whose user_id is this caller
OwnedBy(transfer_id, u) ==
    transfer_id \in DOMAIN db.transfers /\ db.transfers[transfer_id].user_id = u

\* C27: a download request goes to the transport, and can be answered with
\* file bytes, only when the ledger record with its id belongs to the caller;
\* for every other id it is answered 'Transfer not found or access denied'
\* with no session made and no remote call, in both ledger modes.
C27_DownloadOnlyByOwner ==
    \A p \in DOMAIN pc :
        Downloading(p) =>
            IF OwnedBy(loc[p].tid, loc[p].user)
            THEN loc[p].op = "get"
            ELSE /\ pc[p] = "resp"
                 /\ loc[p].op = "none"
                 /\ loc[p].resp.status = 404
                 /\ loc[p].resp.error = "Transfer not found or access denied"
                 /\ loc[p].resp.data = NoData
                 /\ loc[p].made = {}
                 /\ loc[p].io = 0

\* caller 2 asked for a transfer of caller 1 and was answered 404
C27_Witness ==
    /\ Downloading(1)
    /\ loc[1].user = 2
    /\ OwnedBy(loc[1].tid, 1)
    /\ loc[1].resp.status = 404

\* the same on PostgreSQL, and the owner is served
C27_WitnessPg == C27_Witness /\ ~db.memory_mode
C27_WitnessOwner ==
    /\ Downloading(1)
    /\ OwnedBy(loc[1].tid, loc[1].user)
    /\ loc[1].resp.status = 200
    /\ loc[1].resp.data = Plain(<<1, 2, 200>>)


\* no id was returned twice by _get_next_id
IdsDistinct ==
    \A i, j \in DOMAIN mem.issued : i # j => mem.issued[i] # mem.issued[j]
\* every record inserted is still in its table
NoneOverwritten ==
    \A c \in mem.created :
        c.id \in DOMAIN mem.tables[c.table] /\ mem.tables[c.table][c.id].seq = c.seq

\* C29: in memory mode, with request threads inside create_user,
\* log_transfer, log_activity and create_session in any interleaving, every
\* id _get_next_id returns differs from every id it returned before, and no
\* record is replaced by a later record under the same id.
C29_MemoryIdsAreUnique == IdsDistinct /\ NoneOverwritten

\* two log_transfer calls were given one id and the first record is gone
C29_TransferOverwritten ==
    /\ Len(mem.issued) = 2
    /\ mem.issued[1] = mem.issued[2]
    /\ \E c \in mem.created :
          /\ c.table = "transfers"
          /\ mem.tables["transfers"][c.id].seq # c.seq

\* what does hold: calls that do not overlap are given distinct ids
C29_SequentialIdsDistinct ==
    /\ Len(mem.issued) = 3
    /\ mem.issued = <<2, 3, 4>>
    /\ Cardinality(mem.created) = 3

============================================================================
